--------------------------- MODULE InferenceMarket ---------------------------
(***************************************************************************)
(* The on-chain inference market (programs/inference-market/src/lib.rs).    *)
(*                                                                         *)
(* A client locks a payment in an escrow token account owned by the job    *)
(* account; a node claims the job, submits a result, and is paid when the  *)
(* client accepts or when anybody settles the job after the challenge      *)
(* window.  A job nobody claimed by its deadline can be refunded, and a    *)
(* disputed job keeps its escrow.                                          *)
(*                                                                         *)
(* Every instruction is one atomic transaction: it changes nothing when a  *)
(* require! fails, when a checked operation overflows, or when a token     *)
(* transfer is refused.  The accounts of its transfers are named by the     *)
(* caller.  post_job creates the escrow account itself; the instructions    *)
(* that pay out take any accounts between which the token program moves     *)
(* tokens on the signature of the job account.                             *)
(***************************************************************************)
EXTENDS Integers, TokenProgram

CONSTANTS
    Wallet,              \* the keys that sign: any of them can be client, node or both
    DefaultKey,          \* Pubkey::default(), the node of a job nobody claimed
    Account,             \* the token accounts there are besides the escrows
    Owner,               \* the owner of each: a wallet, the account of a job, another key
    Mint,                \* the mint of each
    TokenMint,           \* market.token_mint
    InitialTokens,       \* tokens in each of them when the market starts
    Payments,            \* the payment_amounts clients may ask for
    Deadlines,           \* the deadlines clients may ask for
    ChallengeWindow,     \* CHALLENGE_WINDOW_SECONDS, in ticks of the clock
    U64Max,              \* the largest u64
    MaxJobs,             \* bound: jobs posted
    MaxTime              \* bound: the clock

JobId == 0 .. MaxJobs - 1

\* The escrow account of job j is named j, and so is the job account, its owner.
TokenAccount == Account \union JobId
ownerOf == [a \in TokenAccount |-> IF a \in JobId THEN a ELSE Owner[a]]
mintOf == [a \in TokenAccount |-> IF a \in JobId THEN TokenMint ELSE Mint[a]]

ASSUME MarketAssumption ==
    /\ DefaultKey \notin Wallet
    /\ Account \intersect JobId = {}
    /\ InitialTokens \in [Account -> Nat]
    /\ Payments \subseteq Nat
    /\ Deadlines \subseteq Nat
    /\ ChallengeWindow \in Nat
    /\ U64Max \in Nat
    /\ MaxJobs \in Nat
    /\ MaxTime \in Nat

VARIABLES
    now,        \* Clock::get()?.unix_timestamp
    totalJobs,  \* market.total_jobs, the id of the next job
    job,        \* the job accounts
    tokens      \* what is in each token account

vars == <<now, totalJobs, job, tokens>>

PROTOCOL_FEE_BPS == 500

\* JobStatus, and the job account that does not exist yet.
JobStatus == {"Open", "InProgress", "PendingAcceptance", "Completed", "Disputed", "Refunded"}
Absent == "Absent"

\* A job in one of these is still to be paid for, returned or decided.
Unsettled == {"Open", "InProgress", "PendingAcceptance", "Disputed"}

Job == [status : JobStatus \union {Absent}, client : Wallet \union {DefaultKey},
        node : Wallet \union {DefaultKey}, payment : Nat, deadline : Nat, claimedAt : Nat]

EmptyJob == [status |-> Absent, client |-> DefaultKey, node |-> DefaultKey,
             payment |-> 0, deadline |-> 0, claimedAt |-> 0]

-----------------------------------------------------------------------------
\* The names that end in _Bad are defective variants of the definition that
\* follows them; no specification uses them.  Each breaks one property below,
\* which shows that the property says something about the code.

\* initialize: the market account exists and no job was posted.
Init ==
    /\ now = 0
    /\ totalJobs = 0
    /\ job = [j \in JobId |-> EmptyJob]
    /\ tokens = [a \in TokenAccount |-> IF a \in JobId THEN 0 ELSE InitialTokens[a]]

\* The token accounts that exist: the escrow of a job does from post_job on.
Existing == Account \union {j \in JobId : job[j].status # Absent}

\* checked_mul panics when the product leaves u64.
FeeComputable(amount) == amount * PROTOCOL_FEE_BPS <= U64Max
ProtocolFee(amount) == (amount * PROTOCOL_FEE_BPS) \div 10000
NodePayment(amount) == amount - ProtocolFee(amount)

-----------------------------------------------------------------------------

\* post_job: c locks p tokens of an account of its own in the escrow of a new job.
PostJob(c, p, d) ==
    /\ totalJobs < MaxJobs
    /\ p > 0
    /\ d > now
    /\ \E from \in Account :
          /\ Owner[from] = c
          /\ CanTransfer(tokens, mintOf, from, totalJobs, p)
          /\ tokens' = Transfer(tokens, from, totalJobs, p)
    /\ job' = [job EXCEPT ![totalJobs] =
                 [status |-> "Open", client |-> c, node |-> DefaultKey,
                  payment |-> p, deadline |-> d, claimedAt |-> 0]]
    /\ totalJobs' = totalJobs + 1
    /\ UNCHANGED now

\* claim_job: n takes an open job strictly before its deadline.
ClaimJob(n, j) ==
    /\ job[j].status = "Open"
    /\ now < job[j].deadline
    /\ job' = [job EXCEPT ![j] = [@ EXCEPT !.status = "InProgress",
                                           !.node = n, !.claimedAt = now]]
    /\ UNCHANGED <<now, totalJobs, tokens>>

\* submit_result: the claiming node, at any later time.
SubmitResult(n, j) ==
    /\ job[j].status = "InProgress"
    /\ job[j].node = n
    /\ job' = [job EXCEPT ![j].status = "PendingAcceptance"]
    /\ UNCHANGED <<now, totalJobs, tokens>>

PayOutUnmarked_Bad(j) ==
    /\ FeeComputable(job[j].payment)
    /\ \E from, to \in Existing :
          /\ ownerOf[from] = j
          /\ CanTransfer(tokens, mintOf, from, to, job[j].payment)
          /\ tokens' = Transfer(tokens, from, to, job[j].payment)
    /\ UNCHANGED <<now, totalJobs, job>>

\* The two transfers that complete a job, in their order, from an account for which
\* the job account can sign: its share to the node's account, the fee to the treasury's.
PayOut(j) ==
    LET share == NodePayment(job[j].payment)
        fee == ProtocolFee(job[j].payment)
    IN /\ FeeComputable(job[j].payment)
       /\ \E from, nodeAccount, treasuryAccount \in Existing :
             LET paid == Transfer(tokens, from, nodeAccount, share)
             IN /\ ownerOf[from] = j
                /\ CanTransfer(tokens, mintOf, from, nodeAccount, share)
                /\ CanTransfer(paid, mintOf, from, treasuryAccount, fee)
                /\ tokens' = Transfer(paid, from, treasuryAccount, fee)
       /\ job' = [job EXCEPT ![j].status = "Completed"]
       /\ UNCHANGED <<now, totalJobs>>

\* accept_result: the client, whatever the time.
AcceptResult(c, j) ==
    /\ job[j].status = "PendingAcceptance"
    /\ job[j].client = c
    /\ PayOut(j)

DisputeStrict_Bad(c, j) ==
    /\ job[j].status = "PendingAcceptance"
    /\ job[j].client = c
    /\ now < job[j].claimedAt + ChallengeWindow
    /\ job' = [job EXCEPT ![j].status = "Disputed"]
    /\ UNCHANGED <<now, totalJobs, tokens>>

\* dispute_result: the client, no later than the window after the claim.
DisputeResult(c, j) ==
    /\ job[j].status = "PendingAcceptance"
    /\ job[j].client = c
    /\ now <= job[j].claimedAt + ChallengeWindow
    /\ job' = [job EXCEPT ![j].status = "Disputed"]
    /\ UNCHANGED <<now, totalJobs, tokens>>

AutoSettleInWindow_Bad(j) ==
    /\ job[j].status = "PendingAcceptance"
    /\ now <= job[j].claimedAt + ChallengeWindow
    /\ PayOut(j)

\* auto_settle: anybody, once the window after the claim is over.
AutoSettle(j) ==
    /\ job[j].status = "PendingAcceptance"
    /\ now > job[j].claimedAt + ChallengeWindow
    /\ PayOut(j)

\* The transfer that returns a payment, again from an account of the job's.
Refund(j) ==
    /\ \E from, clientAccount \in Existing :
          /\ ownerOf[from] = j
          /\ CanTransfer(tokens, mintOf, from, clientAccount, job[j].payment)
          /\ tokens' = Transfer(tokens, from, clientAccount, job[j].payment)
    /\ job' = [job EXCEPT ![j].status = "Refunded"]
    /\ UNCHANGED <<now, totalJobs>>

RefundUnfinished_Bad(j) ==
    /\ job[j].status \in {"Open", "InProgress"}
    /\ now >= job[j].deadline
    /\ Refund(j)

\* refund_expired: anybody, for an open job from its deadline on.
RefundExpired(j) ==
    /\ job[j].status = "Open"
    /\ now >= job[j].deadline
    /\ Refund(j)

\* The cluster's clock.
Tick ==
    /\ now < MaxTime
    /\ now' = now + 1
    /\ UNCHANGED <<totalJobs, job, tokens>>

Next ==
    \/ \E c \in Wallet, p \in Payments, d \in Deadlines : PostJob(c, p, d)
    \/ \E w \in Wallet, j \in JobId :
          ClaimJob(w, j) \/ SubmitResult(w, j) \/ AcceptResult(w, j) \/ DisputeResult(w, j)
    \/ \E j \in JobId : AutoSettle(j) \/ RefundExpired(j)
    \/ Tick

Spec == Init /\ [][Next]_vars

\* The clock advances, and some keeper settles every job past its window:
\* auto_settle is open to anyone and the heartbeat loop of each node is written
\* to call it every minute for every pending job (node/server.py lines 148-159).
\* That keeper is assumed to pass all the accounts the instruction names.
\* Nothing in the repository calls refund_expired, and nobody is made to claim,
\* submit, accept or dispute.
Fairness == WF_vars(Tick) /\ \A j \in JobId : WF_vars(AutoSettle(j))

FairSpec == Spec /\ Fairness

-----------------------------------------------------------------------------
(* Properties. *)

TypeOK ==
    /\ now \in Nat
    /\ totalJobs \in 0 .. MaxJobs
    /\ job \in [JobId -> Job]
    /\ tokens \in [TokenAccount -> Nat]

\* The escrow account of a job that is open, claimed, submitted or disputed holds at
\* least its payment: whatever accounts others name to settle their jobs (an escrow of
\* another job among them), they can add to this escrow and cannot draw on it, so
\* the job's own settlement never finds it short (lib.rs, accept_result to
\* refund_expired).
EscrowCovered ==
    \A j \in JobId : job[j].status \in Unsettled => tokens[j] >= job[j].payment

\* The claim is what decides between the two ways a job can end: a job that was
\* opened and never claimed has no node, and a claimed one was claimed by a
\* wallet strictly before its deadline, so no refund can meet a claim.
ClaimDecides ==
    \A j \in JobId :
        IF job[j].status \in {Absent, "Open", "Refunded"}
        THEN job[j].node = DefaultKey
        ELSE job[j].node \in Wallet /\ job[j].claimedAt < job[j].deadline

Payable(j) == job[j].status = "PendingAcceptance" /\ FeeComputable(job[j].payment)

\* The clocks leave no instant at which nobody may act on a job and none at
\* which two parties may: of claim and refund on an open job, and of dispute
\* and auto_settle on a pending one, exactly one is possible.
ExactlyOneWayOn ==
    \A j \in JobId :
        /\ job[j].status = "Open" =>
              (ENABLED RefundExpired(j)) # (\E n \in Wallet : ENABLED ClaimJob(n, j))
        /\ Payable(j) =>
              (ENABLED AutoSettle(j)) # (\E c \in Wallet : ENABLED DisputeResult(c, j))

\* The refinement mapping: a job's phase and worker as the contract sees them.
PhaseOf(status) ==
    CASE status = Absent -> "none"
      [] status = "Open" -> "offered"
      [] status \in {"InProgress", "PendingAcceptance"} -> "engaged"
      [] status = "Completed" -> "released"
      [] status = "Refunded" -> "returned"
      [] status = "Disputed" -> "frozen"
ContractPhase == [j \in JobId |-> PhaseOf(job[j].status)]
ContractWorker == [j \in JobId |-> job[j].node]

ContractDue == [j \in JobId |-> job[j].payment]
ContractHeld == [j \in JobId |-> tokens[j]]

Contract == INSTANCE EscrowContract WITH
    Contract <- JobId, Worker <- Wallet, Nobody <- DefaultKey, phase <- ContractPhase,
    due <- ContractDue, held <- ContractHeld, worker <- ContractWorker

\* The market implements the escrow contract: one lock, at most one worker, and one
\* release or return, in which no more leaves the escrow than was locked for the job.
ImplementsContract == Contract!ContractSpec

\* A submitted result never stays pending for ever: the client decides, or
\* the heartbeat's auto_settle does (for a payment whose fee a u64 can compute).
PendingResolves ==
    \A j \in JobId : Payable(j) ~> job[j].status \in {"Completed", "Disputed"}

=============================================================================
