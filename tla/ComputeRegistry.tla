--------------------------- MODULE ComputeRegistry ---------------------------
(***************************************************************************)
(* The on-chain registry of compute nodes                                  *)
(* (programs/compute-registry/src/lib.rs).                                 *)
(*                                                                         *)
(* An operator registers once and locks a stake in a token account that     *)
(* register_node creates for the node.  It may add to the stake, and takes  *)
(* stake out in two instructions with a cooldown between them.  Slashing    *)
(* takes a tenth of the recorded stake at any time, also during a cooldown, *)
(* and nobody tells the pending request.                                   *)
(*                                                                         *)
(* The token accounts of the other three instructions are named by the      *)
(* caller: add_stake pays from any account of the operator into any account, *)
(* withdraw_stake and slash take from any account of the node.              *)
(***************************************************************************)
EXTENDS Integers, TokenProgram

CONSTANTS
    Operator,         \* the keys that register nodes
    Account,          \* the token accounts there are besides the stake accounts
    Owner,            \* the owner of each: an operator, the account of a node, another key
    Mint,             \* the mint of each
    TokenMint,        \* registry.token_mint
    InitialTokens,    \* tokens in each of them at the start
    Amounts,          \* the amounts operators ask to stake and unstake
    MinStake,         \* MIN_STAKE
    Cooldown,         \* the 7 days of begin_unstake, in ticks of the clock
    U64Max,           \* the largest u64
    MaxTime,          \* bound: the clock
    MaxCompletions,   \* bound: completions recorded for each node
    MaxSlashes,       \* bound: slashes of each node
    MaxStake          \* bound: the record add_stake may bring each node to

\* The address of o's node account, derived from o's key.
NodeAccount(o) == <<"node", o>>

\* The stake account created with o's node is named o.
TokenAccount == Account \union Operator
ownerOf == [a \in TokenAccount |-> IF a \in Operator THEN NodeAccount(a) ELSE Owner[a]]
mintOf == [a \in TokenAccount |-> IF a \in Operator THEN TokenMint ELSE Mint[a]]

ASSUME RegistryAssumption ==
    /\ Account \intersect Operator = {}
    /\ \A o, p \in Operator : o # NodeAccount(p)
    /\ InitialTokens \in [Account -> Nat]
    /\ Amounts \subseteq Nat
    /\ MinStake \in Nat \ {0}
    /\ Cooldown \in Nat
    /\ U64Max \in Nat
    /\ MaxTime \in Nat
    /\ MaxCompletions \in [Operator -> Nat]
    /\ MaxSlashes \in [Operator -> Nat]
    /\ MaxStake \in [Operator -> Nat]

VARIABLES
    now,         \* Clock::get()?.unix_timestamp
    status,      \* of each node account: absent, or its is_active flag
    staked,      \* node.staked_amount
    unstake,     \* node.unstake_amount, 0 when no request is pending
    unstakeAt,   \* node.unstake_at
    reputation,  \* node.reputation
    completed,   \* node.jobs_completed
    disputed,    \* node.jobs_disputed
    tokens       \* what is in each token account

request == <<unstake, unstakeAt>>
record == <<completed, disputed, reputation>>
vars == <<now, status, staked, request, record, tokens>>

SLASH_BPS == 1000
MaxReputation == 1000
SlashPenalty == 100
ActiveThreshold == 200

Status == {"absent", "active", "inactive"}
Registered(o) == status[o] # "absent"

\* The token accounts that exist: a stake account does from register_node on.
Existing == Account \union {o \in Operator : Registered(o)}

-----------------------------------------------------------------------------
\* The names that end in _Bad are defective variants of the definition that
\* follows them; no specification uses them.  Each breaks one property below,
\* which shows that the property says something about the code.

\* initialize: the registry exists and no node is registered.
Init ==
    /\ now = 0
    /\ status = [o \in Operator |-> "absent"]
    /\ staked = [o \in Operator |-> 0]
    /\ unstake = [o \in Operator |-> 0]
    /\ unstakeAt = [o \in Operator |-> 0]
    /\ reputation = [o \in Operator |-> 0]
    /\ completed = [o \in Operator |-> 0]
    /\ disputed = [o \in Operator |-> 0]
    /\ tokens = [a \in TokenAccount |-> IF a \in Operator THEN 0 ELSE InitialTokens[a]]

\* Tokens go from an account of o's to another, and are on record as staked.
Deposit(o, amount, to) ==
    /\ \E from \in Existing :
          /\ ownerOf[from] = o
          /\ CanTransfer(tokens, mintOf, from, to, amount)
          /\ tokens' = Transfer(tokens, from, to, amount)
    /\ staked' = [staked EXCEPT ![o] = @ + amount]
    /\ UNCHANGED now

\* register_node: the node account and its stake account are created, so this happens
\* once for each key.
RegisterNode(o, amount) ==
    /\ ~Registered(o)
    /\ amount >= MinStake
    /\ Deposit(o, amount, o)
    /\ status' = [status EXCEPT ![o] = "active"]
    /\ reputation' = [reputation EXCEPT ![o] = MaxReputation]
    /\ UNCHANGED <<request, completed, disputed>>

\* add_stake: the destination is any account of the same mint.
AddStake(o, amount) ==
    /\ Registered(o)
    /\ amount > 0
    /\ staked[o] + amount <= U64Max
    /\ staked[o] + amount <= MaxStake[o]
    /\ \E to \in Existing : Deposit(o, amount, to)
    /\ UNCHANGED <<status, request, record>>

BeginUnstakeUnchecked_Bad(o, amount) ==
    /\ Registered(o)
    /\ amount > 0
    /\ unstake' = [unstake EXCEPT ![o] = amount]
    /\ unstakeAt' = [unstakeAt EXCEPT ![o] = now + Cooldown]
    /\ status' = [status EXCEPT ![o] = IF staked[o] = amount THEN "inactive" ELSE @]
    /\ UNCHANGED <<now, staked, record, tokens>>

BeginUnstakeStaysActive_Bad(o, amount) ==
    /\ Registered(o)
    /\ amount > 0
    /\ staked[o] - amount >= MinStake \/ staked[o] = amount
    /\ unstake' = [unstake EXCEPT ![o] = amount]
    /\ unstakeAt' = [unstakeAt EXCEPT ![o] = now + Cooldown]
    /\ UNCHANGED <<now, status, staked, record, tokens>>

\* begin_unstake: a request replaces the one before it, and its cooldown.
BeginUnstake(o, amount) ==
    /\ Registered(o)
    /\ amount > 0
    /\ staked[o] - amount >= MinStake \/ staked[o] = amount
    /\ unstake' = [unstake EXCEPT ![o] = amount]
    /\ unstakeAt' = [unstakeAt EXCEPT ![o] = now + Cooldown]
    /\ status' = [status EXCEPT ![o] = IF staked[o] = amount THEN "inactive" ELSE @]
    /\ UNCHANGED <<now, staked, record, tokens>>

\* Tokens go out of an account for which the account of o's node can sign.
TakeFromNode(o, amount) ==
    \E from, to \in Existing :
        /\ ownerOf[from] = NodeAccount(o)
        /\ CanTransfer(tokens, mintOf, from, to, amount)
        /\ tokens' = Transfer(tokens, from, to, amount)

WithdrawKeepsStake_Bad(o) ==
    /\ unstake[o] > 0 /\ now >= unstakeAt[o]
    /\ TakeFromNode(o, unstake[o])
    /\ unstake' = [unstake EXCEPT ![o] = 0]
    /\ unstakeAt' = [unstakeAt EXCEPT ![o] = 0]
    /\ UNCHANGED <<now, status, staked, record>>

\* withdraw_stake: pays out the whole request or fails.
WithdrawStake(o) ==
    /\ unstake[o] > 0
    /\ now >= unstakeAt[o]
    /\ TakeFromNode(o, unstake[o])
    /\ staked[o] >= unstake[o]
    /\ staked' = [staked EXCEPT ![o] = @ - unstake[o]]
    /\ unstake' = [unstake EXCEPT ![o] = 0]
    /\ unstakeAt' = [unstakeAt EXCEPT ![o] = 0]
    /\ UNCHANGED <<now, status, record>>

\* record_completion: any signer may call it.
RecordCompletion(o) ==
    /\ Registered(o)
    /\ completed[o] < MaxCompletions[o]
    /\ completed' = [completed EXCEPT ![o] = @ + 1]
    /\ reputation' = [reputation EXCEPT ![o] = IF @ < MaxReputation THEN @ + 1 ELSE @]
    /\ UNCHANGED <<now, status, staked, request, disputed, tokens>>

SlashAmount(stake) == (stake * SLASH_BPS) \div 10000

\* saturating_sub
Penalised(points) == IF points > SlashPenalty THEN points - SlashPenalty ELSE 0

\* slash: any signer may call it, whatever request is pending.
Slash(o) ==
    /\ Registered(o)
    /\ disputed[o] < MaxSlashes[o]
    /\ staked[o] * SLASH_BPS <= U64Max
    /\ TakeFromNode(o, SlashAmount(staked[o]))
    /\ staked' = [staked EXCEPT ![o] = @ - SlashAmount(staked[o])]
    /\ disputed' = [disputed EXCEPT ![o] = @ + 1]
    /\ reputation' = [reputation EXCEPT ![o] = Penalised(reputation[o])]
    /\ status' = [status EXCEPT ![o] =
                     IF Penalised(reputation[o]) < ActiveThreshold THEN "inactive" ELSE @]
    /\ UNCHANGED <<now, request, completed>>

\* The cluster's clock.
Tick ==
    /\ now < MaxTime
    /\ now' = now + 1
    /\ UNCHANGED <<status, staked, request, record, tokens>>

Next ==
    \/ \E o \in Operator, amount \in Amounts :
          RegisterNode(o, amount) \/ AddStake(o, amount) \/ BeginUnstake(o, amount)
    \/ \E o \in Operator : WithdrawStake(o) \/ RecordCompletion(o) \/ Slash(o)
    \/ Tick

Spec == Init /\ [][Next]_vars

-----------------------------------------------------------------------------
(* Properties. *)

TypeOK ==
    /\ now \in Nat
    /\ status \in [Operator -> Status]
    /\ staked \in [Operator -> Nat]
    /\ unstake \in [Operator -> Nat]
    /\ unstakeAt \in [Operator -> Nat]
    /\ reputation \in [Operator -> 0 .. MaxReputation]
    /\ completed \in [Operator -> Nat]
    /\ disputed \in [Operator -> Nat]
    /\ tokens \in [TokenAccount -> Nat]

\* Whatever accounts callers name, tokens leave the stake account of a node only with
\* its record: never more of them than the record falls by in the same step, and only
\* in a withdrawal whose cooldown is over or in a slash (lib.rs, withdraw_stake, slash).
\* Nobody else's instruction draws on it, and none of the operator's own does twice.
VaultFallsWithRecord ==
    [][\A o \in Operator :
          tokens'[o] < tokens[o] =>
              /\ tokens[o] - tokens'[o] <= staked[o] - staked'[o]
              /\ disputed'[o] > disputed[o] \/ (unstake[o] > 0 /\ now >= unstakeAt[o])]_vars

\* Until it is slashed, an active node has the minimum stake on record, however its
\* top-ups, replaced requests and withdrawals follow each other: the way below the
\* minimum leads through deactivation (lib.rs, begin_unstake).
ActiveKeepsMinStake ==
    \A o \in Operator :
        status[o] = "active" /\ disputed[o] = 0 => staked[o] >= MinStake

\* A node that is still active has a reputation of at least 200, whatever mix of
\* slashes and completions it went through (lib.rs, slash).
ActiveIsReputable ==
    \A o \in Operator : status[o] = "active" => reputation[o] >= ActiveThreshold

\* Only a slash can make a pending request exceed the stake: requests are
\* checked when they are made, and no other instruction takes stake away.
OverclaimOnlyAfterSlash ==
    \A o \in Operator : unstake[o] > staked[o] => disputed[o] > 0

\* No instruction makes an inactive node active again: not a top-up, not a
\* completion, not a smaller request after a full one.
DeactivationIsFinal ==
    [][\A o \in Operator :
          status[o] = "inactive" => status'[o] = "inactive"]_vars

=============================================================================
