----------------------- MODULE InferenceMarketProofs -----------------------
(***************************************************************************)
(* Proofs about the inference market, for any wallets, payments, deadlines, *)
(* window, number of jobs and horizon of the clock.                         *)
(*                                                                         *)
(* EscrowCovered is not inductive alone: post_job writes the slot of job     *)
(* totalJobs, so the proof needs that this slot is still empty             *)
(* (FreshSlots).  All that is used of a payout is what it cannot do: the     *)
(* account it draws on belongs to the job, so no other job's escrow falls,    *)
(* and its own by no more than the payment (Drawn).                         *)
(* That no token is made or lost is a fact about sums over any number of     *)
(* accounts, of which a transfer changes two terms or none.                 *)
(***************************************************************************)
EXTENDS InferenceMarket, CollectionTheorems, TLAPS

\* The accounts of the jobs posted so far are exactly those below totalJobs, and
\* each was posted by a wallet; nothing is in an escrow that does not exist yet.
FreshSlots ==
    \A j \in JobId :
        /\ job[j].status = Absent <=> j >= totalJobs
        /\ job[j].status # Absent => job[j].client \in Wallet
        /\ job[j].status = Absent => tokens[j] = 0

\* The inductive invariant.
MarketInv ==
    /\ TypeOK
    /\ FreshSlots
    /\ EscrowCovered
    /\ ClaimDecides

\* What the transfers for job j may do to the escrows, if they move at most amount.
Drawn(j, amount) ==
    /\ tokens' \in [TokenAccount -> Nat]
    /\ tokens'[j] >= tokens[j] - amount
    /\ \A k \in JobId \ {j} : tokens'[k] >= tokens[k]
    /\ \A k \in JobId : job[k].status = Absent => tokens'[k] = tokens[k]

\* Job j comes to a status, the clock and the number of jobs do not change.
MovedTo(j, s) ==
    /\ job' = [job EXCEPT ![j].status = s]
    /\ UNCHANGED <<now, totalJobs>>

-----------------------------------------------------------------------------
\* The fee is at most the payment, so the node's share is a token amount and the
\* two shares are the whole payment (lib.rs, accept_result and auto_settle).
LEMMA FeeSplit ==
    ASSUME NEW amount \in Nat
    PROVE  /\ ProtocolFee(amount) \in Nat
           /\ NodePayment(amount) \in Nat
           /\ NodePayment(amount) + ProtocolFee(amount) = amount
  BY DEF ProtocolFee, NodePayment, PROTOCOL_FEE_BPS

\* Existing accounts are token accounts, and an escrow belongs to its own job alone.
LEMMA AccountFacts ==
    /\ \A a \in Existing : a \in TokenAccount
    /\ \A j \in JobId : j \in TokenAccount /\ ownerOf[j] = j /\ mintOf[j] = TokenMint
    /\ \A j \in JobId : job[j].status = Absent => j \notin Existing
    /\ \A j \in JobId : job[j].status # Absent => j \in Existing
    /\ \A a \in Account : ownerOf[a] = Owner[a] /\ a \notin JobId
  BY MarketAssumption DEF Existing, TokenAccount, ownerOf, mintOf

\* A transfer from an account of job j to an existing one.
LEMMA JobTransfer ==
    ASSUME NEW t \in [TokenAccount -> Nat], NEW j \in JobId,
           NEW from \in Existing, NEW to \in Existing, NEW amount \in Nat,
           ownerOf[from] = j, t[from] >= amount
    PROVE  /\ Transfer(t, from, to, amount) \in [TokenAccount -> Nat]
           /\ Transfer(t, from, to, amount)[j] >= t[j] - amount
           /\ \A k \in JobId \ {j} : Transfer(t, from, to, amount)[k] >= t[k]
           /\ \A k \in JobId : job[k].status = Absent => Transfer(t, from, to, amount)[k] = t[k]
  <1> DEFINE u == Transfer(t, from, to, amount)
  <1>1. /\ from \in TokenAccount /\ to \in TokenAccount /\ j \in TokenAccount
        /\ \A k \in JobId : k \in TokenAccount /\ ownerOf[k] = k
    BY AccountFacts
  <1>2. /\ u \in [TokenAccount -> Nat] /\ u[from] >= t[from] - amount
        /\ \A c \in TokenAccount \ {from} : u[c] >= t[c]
        /\ \A c \in TokenAccount \ {from, to} : u[c] = t[c]
    BY <1>1, TransferMoves
  <1> HIDE DEF u
  <1>3. u[j] >= t[j] - amount
    <2>1. CASE j = from
      BY <1>2, <2>1
    <2>2. CASE j # from
      <3>1. u[j] >= t[j] /\ t[j] \in Nat /\ u[j] \in Nat
        BY <1>1, <1>2, <2>2
      <3> QED
        BY <3>1
    <2> QED
      BY <2>1, <2>2
  <1>4. \A k \in JobId \ {j} : k # from /\ u[k] >= t[k]
    BY <1>1, <1>2
  <1>5. \A k \in JobId : job[k].status = Absent => u[k] = t[k]
    <2>1. \A k \in JobId : job[k].status = Absent => k # from /\ k # to
      BY AccountFacts
    <2> QED
      BY <1>1, <1>2, <2>1
  <1>6. u \in [TokenAccount -> Nat]
    BY <1>2
  <1> QED
    BY <1>3, <1>4, <1>5, <1>6 DEF u

\* What a payout does to the state, for the two instructions that pay out.
LEMMA PayOutStep ==
    ASSUME MarketInv, NEW j \in JobId, PayOut(j)
    PROVE  Drawn(j, job[j].payment) /\ MovedTo(j, "Completed")
  <1> DEFINE amount == job[j].payment
             share == NodePayment(amount)
             fee == ProtocolFee(amount)
  <1>1. amount \in Nat /\ tokens \in [TokenAccount -> Nat]
    BY DEF MarketInv, TypeOK, Job
  <1>2. share \in Nat /\ fee \in Nat /\ share + fee = amount
    BY <1>1, FeeSplit
  <1>3. PICK from \in Existing, na \in Existing, ta \in Existing :
            /\ ownerOf[from] = j
            /\ tokens[from] >= share
            /\ Transfer(tokens, from, na, share)[from] >= fee
            /\ tokens' = Transfer(Transfer(tokens, from, na, share), from, ta, fee)
    BY DEF PayOut, CanTransfer
  <1> DEFINE paid == Transfer(tokens, from, na, share)
  <1> HIDE DEF share, fee, amount
  <1>4. /\ paid \in [TokenAccount -> Nat] /\ paid[j] >= tokens[j] - share
        /\ \A k \in JobId \ {j} : paid[k] >= tokens[k]
        /\ \A k \in JobId : job[k].status = Absent => paid[k] = tokens[k]
    BY <1>1, <1>2, <1>3, JobTransfer
  <1>5. paid[from] >= fee /\ tokens' = Transfer(paid, from, ta, fee)
    BY <1>3
  <1> HIDE DEF paid
  <1>6. /\ tokens' \in [TokenAccount -> Nat] /\ tokens'[j] >= paid[j] - fee
        /\ \A k \in JobId \ {j} : tokens'[k] >= paid[k]
        /\ \A k \in JobId : job[k].status = Absent => tokens'[k] = paid[k]
    BY <1>2, <1>3, <1>4, <1>5, JobTransfer
  <1>7. /\ tokens[j] \in Nat /\ paid[j] \in Nat /\ tokens'[j] \in Nat
        /\ \A k \in JobId : tokens[k] \in Nat /\ paid[k] \in Nat /\ tokens'[k] \in Nat
    BY <1>1, <1>4, <1>6, AccountFacts
  <1>8. tokens'[j] >= tokens[j] - amount
    BY <1>1, <1>2, <1>4, <1>6, <1>7
  <1>9. \A k \in JobId \ {j} : tokens'[k] >= tokens[k]
    BY <1>4, <1>6, <1>7
  <1>10. Drawn(j, amount)
    BY <1>4, <1>6, <1>8, <1>9 DEF Drawn
  <1> QED
    BY <1>10 DEF PayOut, MovedTo, amount

\* And what a refund does.
LEMMA RefundStep ==
    ASSUME MarketInv, NEW j \in JobId, Refund(j)
    PROVE  Drawn(j, job[j].payment) /\ MovedTo(j, "Refunded")
  <1>1. job[j].payment \in Nat /\ tokens \in [TokenAccount -> Nat]
    BY DEF MarketInv, TypeOK, Job
  <1>2. PICK from \in Existing, ca \in Existing :
            /\ ownerOf[from] = j /\ tokens[from] >= job[j].payment
            /\ tokens' = Transfer(tokens, from, ca, job[j].payment)
    BY DEF Refund, CanTransfer
  <1>3. Drawn(j, job[j].payment)
    BY <1>1, <1>2, JobTransfer DEF Drawn
  <1> QED
    BY <1>3 DEF Refund, MovedTo

\* What post_job does to the accounts: the new escrow gets the payment.
LEMMA PostStep ==
    ASSUME MarketInv, NEW c \in Wallet, NEW p \in Payments, NEW d \in Deadlines, PostJob(c, p, d)
    PROVE  /\ p \in Nat /\ d \in Nat /\ totalJobs \in JobId
           /\ job[totalJobs].status = Absent
           /\ tokens' \in [TokenAccount -> Nat]
           /\ tokens'[totalJobs] = p
           /\ \A k \in JobId \ {totalJobs} : tokens'[k] = tokens[k]
  <1>1. p \in Nat /\ d \in Nat /\ totalJobs \in JobId
    BY MarketAssumption DEF PostJob, MarketInv, TypeOK, JobId
  <1>2. job[totalJobs].status = Absent /\ tokens[totalJobs] = 0
    BY <1>1 DEF MarketInv, FreshSlots, JobId
  <1>3. PICK from \in Account : /\ tokens[from] >= p
                                /\ tokens' = Transfer(tokens, from, totalJobs, p)
    BY DEF PostJob, CanTransfer
  <1>4. /\ tokens \in [TokenAccount -> Nat] /\ from \in TokenAccount /\ totalJobs \in TokenAccount
        /\ from \notin JobId /\ JobId \subseteq TokenAccount
    BY <1>1, AccountFacts DEF MarketInv, TypeOK, TokenAccount
  <1>5. /\ tokens' \in [TokenAccount -> Nat]
        /\ tokens'[totalJobs] = tokens[totalJobs] + p
        /\ \A k \in TokenAccount \ {from, totalJobs} : tokens'[k] = tokens[k]
    BY <1>1, <1>3, <1>4, TransferMoves
  <1> QED
    BY <1>1, <1>2, <1>4, <1>5

-----------------------------------------------------------------------------
LEMMA InitInv == Init => MarketInv
  <1> SUFFICES ASSUME Init PROVE MarketInv
    OBVIOUS
  <1> USE MarketAssumption DEF Init, JobId, EmptyJob
  <1>1. TypeOK
    BY DEF TypeOK, Job, JobStatus, Absent, TokenAccount
  <1>2. FreshSlots
    BY DEF FreshSlots, Absent, TokenAccount
  <1>3. EscrowCovered
    BY DEF EscrowCovered, Unsettled, Absent
  <1>4. ClaimDecides
    BY DEF ClaimDecides, Absent
  <1> QED
    BY <1>1, <1>2, <1>3, <1>4 DEF MarketInv

\* An instruction that settles job j, in whatever accounts.
LEMMA SettlingKeepsInv ==
    ASSUME MarketInv, NEW j \in JobId, NEW s \in {"Completed", "Refunded"},
           Drawn(j, job[j].payment), MovedTo(j, s),
           job[j].status = IF s = "Completed" THEN "PendingAcceptance" ELSE "Open"
    PROVE  MarketInv'
  <1> USE DEF MarketInv, TypeOK
  <1>1. /\ \A k \in JobId \ {j} : job'[k] = job[k]
        /\ job'[j] = [job[j] EXCEPT !.status = s] /\ job'[j].status = s
        /\ job'[j].payment = job[j].payment /\ job'[j].node = job[j].node
        /\ job'[j].client = job[j].client /\ job'[j].deadline = job[j].deadline
        /\ job'[j].claimedAt = job[j].claimedAt
        /\ UNCHANGED <<now, totalJobs>> /\ job[j].status \in Unsettled
    BY DEF MovedTo, Job, Unsettled
  <1>2. TypeOK'
    BY DEF MovedTo, Drawn, Job, JobStatus
  <1>3. FreshSlots'
    BY <1>1 DEF FreshSlots, Drawn, Absent, Unsettled
  <1>4. EscrowCovered'
    <2> SUFFICES ASSUME NEW k \in JobId, job'[k].status \in Unsettled
                 PROVE  tokens'[k] >= job'[k].payment
      BY DEF EscrowCovered
    <2>1. k # j
      BY <1>1 DEF Unsettled
    <2>2. tokens'[k] >= tokens[k] /\ tokens[k] >= job[k].payment /\ job'[k] = job[k]
      BY <1>1, <2>1 DEF Drawn, EscrowCovered
    <2>3. tokens'[k] \in Nat /\ tokens[k] \in Nat /\ job[k].payment \in Nat
      BY AccountFacts DEF Drawn, Job
    <2> QED
      BY <2>2, <2>3
  <1>5. ClaimDecides'
    BY <1>1 DEF ClaimDecides, Absent, Unsettled
  <1> QED
    BY <1>2, <1>3, <1>4, <1>5

\* One step per instruction; the instructions that move no token touch the
\* status, node and claim time of one job only.
LEMMA StepInv == MarketInv /\ [Next]_vars => MarketInv'
  <1> SUFFICES ASSUME MarketInv, [Next]_vars PROVE MarketInv'
    OBVIOUS
  <1> USE MarketAssumption
  <1>1. ASSUME NEW c \in Wallet, NEW p \in Payments, NEW d \in Deadlines, PostJob(c, p, d)
        PROVE  MarketInv'
    <2>1. /\ p \in Nat /\ d \in Nat /\ totalJobs \in JobId
          /\ tokens' \in [TokenAccount -> Nat] /\ tokens'[totalJobs] = p
          /\ \A k \in JobId \ {totalJobs} : tokens'[k] = tokens[k]
      BY <1>1, PostStep
    <2>2. TypeOK'
      <3>1. job' \in [JobId -> Job]
        BY <1>1, <2>1 DEF PostJob, MarketInv, TypeOK, Job, JobStatus
      <3>2. now' \in Nat /\ totalJobs' \in 0 .. MaxJobs
        BY <1>1 DEF PostJob, MarketInv, TypeOK
      <3> QED
        BY <2>1, <3>1, <3>2 DEF TypeOK
    <2>3. FreshSlots'
      BY <1>1, <2>1 DEF PostJob, MarketInv, TypeOK, FreshSlots, JobId, Absent
    <2>4. EscrowCovered'
      BY <1>1, <2>1 DEF PostJob, MarketInv, TypeOK, EscrowCovered, Unsettled
    <2>5. ClaimDecides'
      BY <1>1, <2>1 DEF PostJob, MarketInv, TypeOK, ClaimDecides, Absent
    <2> QED
      BY <2>2, <2>3, <2>4, <2>5 DEF MarketInv
  <1>2. ASSUME NEW n \in Wallet, NEW j \in JobId, ClaimJob(n, j)
        PROVE  MarketInv'
    <2>1. TypeOK'
      BY ZenonT(40), <1>2 DEF ClaimJob, MarketInv, TypeOK, Job, JobStatus
    <2>2. FreshSlots'
      BY <1>2 DEF ClaimJob, MarketInv, TypeOK, FreshSlots, Absent
    <2>3. EscrowCovered'
      BY <1>2 DEF ClaimJob, MarketInv, TypeOK, EscrowCovered, Unsettled, Job
    <2>4. ClaimDecides'
      BY <1>2 DEF ClaimJob, MarketInv, TypeOK, ClaimDecides, Absent, Job
    <2> QED
      BY <2>1, <2>2, <2>3, <2>4 DEF MarketInv
  <1>3. ASSUME NEW n \in Wallet, NEW j \in JobId, SubmitResult(n, j)
        PROVE  MarketInv'
    <2>1. TypeOK'
      BY <1>3 DEF SubmitResult, MarketInv, TypeOK, Job, JobStatus
    <2>2. FreshSlots'
      BY <1>3 DEF SubmitResult, MarketInv, TypeOK, FreshSlots, Absent
    <2>3. EscrowCovered'
      BY <1>3 DEF SubmitResult, MarketInv, TypeOK, EscrowCovered, Unsettled, Job
    <2>4. ClaimDecides'
      BY <1>3 DEF SubmitResult, MarketInv, TypeOK, ClaimDecides, Absent, Job
    <2> QED
      BY <2>1, <2>2, <2>3, <2>4 DEF MarketInv
  <1>4. ASSUME NEW j \in JobId, job[j].status = "PendingAcceptance", PayOut(j)
        PROVE  MarketInv'
    BY <1>4, PayOutStep, SettlingKeepsInv
  <1>5. ASSUME NEW c \in Wallet, NEW j \in JobId, AcceptResult(c, j)
        PROVE  MarketInv'
    BY <1>4, <1>5 DEF AcceptResult
  <1>6. ASSUME NEW c \in Wallet, NEW j \in JobId, DisputeResult(c, j)
        PROVE  MarketInv'
    <2>1. TypeOK'
      BY <1>6 DEF DisputeResult, MarketInv, TypeOK, Job, JobStatus
    <2>2. FreshSlots'
      BY <1>6 DEF DisputeResult, MarketInv, TypeOK, FreshSlots, Absent
    <2>3. EscrowCovered'
      BY <1>6 DEF DisputeResult, MarketInv, TypeOK, EscrowCovered, Unsettled, Job
    <2>4. ClaimDecides'
      BY <1>6 DEF DisputeResult, MarketInv, TypeOK, ClaimDecides, Absent, Job
    <2> QED
      BY <2>1, <2>2, <2>3, <2>4 DEF MarketInv
  <1>7. ASSUME NEW j \in JobId, AutoSettle(j)
        PROVE  MarketInv'
    BY <1>4, <1>7 DEF AutoSettle
  <1>8. ASSUME NEW j \in JobId, RefundExpired(j)
        PROVE  MarketInv'
    BY <1>8, RefundStep, SettlingKeepsInv DEF RefundExpired
  <1>9. CASE Tick
    BY <1>9 DEF Tick, MarketInv, TypeOK, FreshSlots, EscrowCovered, ClaimDecides
  <1>10. CASE UNCHANGED vars
    BY <1>10 DEF vars, MarketInv, TypeOK, FreshSlots, EscrowCovered, ClaimDecides
  <1> QED
    BY <1>1, <1>2, <1>3, <1>5, <1>6, <1>7, <1>8, <1>9, <1>10 DEF Next

\* The inductive invariant holds in every state of every behaviour.
THEOREM Invariance == Spec => []MarketInv
  <1>1. Init => MarketInv
    BY InitInv
  <1>2. MarketInv /\ [Next]_vars => MarketInv'
    BY StepInv
  <1> QED
    BY <1>1, <1>2, PTL DEF Spec

\* Every state of the market is well typed: no token account is overdrawn.
THEOREM TypeCorrect == Spec => []TypeOK
  <1>1. MarketInv => TypeOK
    BY DEF MarketInv
  <1> QED
    BY <1>1, Invariance, PTL

\* The escrow of a job that is not settled holds at least its payment, whatever
\* accounts the instructions of other jobs name (lib.rs).
THEOREM EscrowAlwaysCovered == Spec => []EscrowCovered
  <1>1. MarketInv => EscrowCovered
    BY DEF MarketInv
  <1> QED
    BY <1>1, Invariance, PTL

\* A refunded job was never claimed, and a claimed one was claimed in time.
THEOREM ClaimAlwaysDecides == Spec => []ClaimDecides
  <1>1. MarketInv => ClaimDecides
    BY DEF MarketInv
  <1> QED
    BY <1>1, Invariance, PTL

-----------------------------------------------------------------------------
(* The refinement: each instruction is one step of the escrow contract, except *)
(* submit_result, which the contract does not see.                            *)

\* What changing the status of one job does to the contract's view of it.
LEMMA PhaseStep ==
    ASSUME MarketInv, MarketInv', NEW j \in JobId, NEW s,
           \A k \in JobId : job'[k].status = IF k = j THEN s ELSE job[k].status
    PROVE  ContractPhase' = [ContractPhase EXCEPT ![j] = PhaseOf(s)]
  BY DEF ContractPhase

\* Keeping every job's node keeps the contract's workers.
LEMMA WorkersKept ==
    ASSUME \A k \in JobId : job'[k].node = job[k].node
    PROVE  UNCHANGED ContractWorker
  BY DEF ContractWorker

\* Keeping every job's payment keeps what is due.
LEMMA DueKeptByStatus ==
    ASSUME \A k \in JobId : job'[k].payment = job[k].payment
    PROVE  UNCHANGED ContractDue
  BY DEF ContractDue

\* A settlement is a Release or a Return.
LEMMA SettlingSettles ==
    ASSUME MarketInv, MarketInv', NEW j \in JobId, NEW s \in {"Completed", "Refunded"},
           Drawn(j, job[j].payment), MovedTo(j, s)
    PROVE  Contract!Settle(j, PhaseOf(job[j].status), PhaseOf(s))
  <1>1. job \in [JobId -> Job] /\ job' = [job EXCEPT ![j].status = s]
    BY DEF MarketInv, TypeOK, MovedTo
  <1>2. /\ \A k \in JobId : job'[k].status = IF k = j THEN s ELSE job[k].status
        /\ \A k \in JobId : job'[k].node = job[k].node
        /\ \A k \in JobId : job'[k].payment = job[k].payment
    BY <1>1 DEF Job
  <1>3. UNCHANGED <<ContractDue, ContractWorker>>
    BY <1>2, WorkersKept, DueKeptByStatus
  <1>4. ContractPhase' = [ContractPhase EXCEPT ![j] = PhaseOf(s)]
    BY <1>2, PhaseStep
  <1>5. ContractPhase[j] = PhaseOf(job[j].status)
    BY DEF ContractPhase
  <1>6. /\ \A k \in JobId : ContractHeld'[k] = tokens'[k] /\ ContractHeld[k] = tokens[k]
        /\ ContractDue[j] = job[j].payment
    BY DEF ContractHeld, ContractDue
  <1>7. /\ ContractHeld'[j] >= ContractHeld[j] - ContractDue[j]
        /\ \A k \in JobId \ {j} : ContractHeld'[k] >= ContractHeld[k]
    BY <1>6 DEF Drawn
  <1> QED
    BY <1>3, <1>4, <1>5, <1>7 DEF Contract!Settle

LEMMA StepRefines ==
    MarketInv /\ MarketInv' /\ [Next]_vars => [Contract!ContractNext]_(Contract!cvars)
  <1> SUFFICES ASSUME MarketInv, MarketInv', [Next]_vars
               PROVE  Contract!ContractNext
                        \/ UNCHANGED <<ContractPhase, ContractDue, ContractHeld, ContractWorker>>
    BY DEF Contract!cvars
  <1>0. job \in [JobId -> Job]
    BY DEF MarketInv, TypeOK
  <1>1. ASSUME NEW c \in Wallet, NEW p \in Payments, NEW d \in Deadlines, PostJob(c, p, d)
        PROVE  Contract!ContractNext
    <2>1. /\ p \in Nat /\ totalJobs \in JobId /\ job[totalJobs].status = Absent
          /\ tokens'[totalJobs] = p
          /\ \A k \in JobId \ {totalJobs} : tokens'[k] = tokens[k]
      BY <1>1, PostStep
    <2>2. p > 0
      BY <1>1 DEF PostJob
    <2>3. job[totalJobs].node = DefaultKey
      BY <2>1 DEF MarketInv, ClaimDecides
    <2>4. /\ \A k \in JobId : job'[k].status = IF k = totalJobs THEN "Open" ELSE job[k].status
          /\ \A k \in JobId : job'[k].node = job[k].node
          /\ \A k \in JobId : job'[k].payment = IF k = totalJobs THEN p ELSE job[k].payment
      BY <1>0, <1>1, <2>1, <2>3 DEF PostJob
    <2>5. UNCHANGED ContractWorker
      BY <2>4, WorkersKept
    <2>6. ContractPhase' = [ContractPhase EXCEPT ![totalJobs] = "offered"]
      BY <2>1, <2>4, PhaseStep DEF PhaseOf, Absent
    <2>7. ContractPhase[totalJobs] = "none"
      BY <2>1 DEF ContractPhase, PhaseOf, Absent
    <2>8. ContractDue'[totalJobs] = p /\ ContractDue' = [ContractDue EXCEPT ![totalJobs] = p]
      BY <2>1, <2>4 DEF ContractDue
    <2>9. ContractHeld' = [ContractHeld EXCEPT ![totalJobs] = p]
      BY <2>1 DEF ContractHeld
    <2> QED
      BY <2>1, <2>2, <2>5, <2>6, <2>7, <2>8, <2>9 DEF Contract!Lock, Contract!ContractNext
  <1>2. ASSUME NEW n \in Wallet, NEW j \in JobId, ClaimJob(n, j)
        PROVE  Contract!ContractNext
    <2>1. /\ \A k \in JobId : job'[k].status = IF k = j THEN "InProgress" ELSE job[k].status
          /\ \A k \in JobId : job'[k].payment = job[k].payment
      BY <1>0, <1>2 DEF ClaimJob, Job
    <2>2. ContractPhase' = [ContractPhase EXCEPT ![j] = "engaged"]
      BY <2>1, PhaseStep DEF PhaseOf, Absent
    <2>3. ContractWorker' = [ContractWorker EXCEPT ![j] = n]
      BY <1>0, <1>2 DEF ClaimJob, Job, ContractWorker
    <2>4. ContractPhase[j] = "offered"
      BY <1>2 DEF ClaimJob, ContractPhase, PhaseOf, Absent
    <2>5. UNCHANGED ContractHeld
      BY <1>2 DEF ClaimJob, ContractHeld
    <2>6. UNCHANGED ContractDue
      BY <2>1, DueKeptByStatus
    <2> QED
      BY <2>2, <2>3, <2>4, <2>5, <2>6 DEF Contract!Engage, Contract!ContractNext
  <1>3. ASSUME NEW n \in Wallet, NEW j \in JobId, SubmitResult(n, j)
        PROVE  UNCHANGED <<ContractPhase, ContractDue, ContractHeld, ContractWorker>>
    <2>1. /\ \A k \in JobId : job'[k].status =
                IF k = j THEN "PendingAcceptance" ELSE job[k].status
          /\ \A k \in JobId : job'[k].node = job[k].node
          /\ \A k \in JobId : job'[k].payment = job[k].payment
      BY <1>0, <1>3 DEF SubmitResult, Job
    <2>2. ContractPhase' = [ContractPhase EXCEPT ![j] = "engaged"]
      BY <2>1, PhaseStep DEF PhaseOf, Absent
    <2>3. ContractPhase[j] = "engaged" /\ UNCHANGED ContractHeld
      BY <1>3 DEF SubmitResult, ContractPhase, ContractHeld, PhaseOf, Absent
    <2>4. UNCHANGED <<ContractDue, ContractWorker>>
      BY <2>1, WorkersKept, DueKeptByStatus
    <2> QED
      BY <2>2, <2>3, <2>4 DEF ContractPhase
  <1>a. ASSUME NEW j \in JobId, job[j].status = "PendingAcceptance", PayOut(j)
        PROVE  Contract!ContractNext
    <2>1. Contract!Settle(j, PhaseOf("PendingAcceptance"), PhaseOf("Completed"))
      BY <1>a, PayOutStep, SettlingSettles
    <2>2. Contract!Release(j)
      BY <2>1 DEF Contract!Release, PhaseOf, Absent
    <2> QED
      BY <2>2 DEF Contract!ContractNext
  <1>4. ASSUME NEW c \in Wallet, NEW j \in JobId, AcceptResult(c, j)
        PROVE  Contract!ContractNext
    BY <1>4, <1>a DEF AcceptResult
  <1>5. ASSUME NEW c \in Wallet, NEW j \in JobId, DisputeResult(c, j)
        PROVE  Contract!ContractNext
    <2>1. /\ \A k \in JobId : job'[k].status = IF k = j THEN "Disputed" ELSE job[k].status
          /\ \A k \in JobId : job'[k].node = job[k].node
          /\ \A k \in JobId : job'[k].payment = job[k].payment
      BY <1>0, <1>5 DEF DisputeResult, Job
    <2>2. ContractPhase' = [ContractPhase EXCEPT ![j] = "frozen"]
      BY <2>1, PhaseStep DEF PhaseOf, Absent
    <2>3. ContractPhase[j] = "engaged" /\ UNCHANGED ContractHeld
      BY <1>5 DEF DisputeResult, ContractPhase, ContractHeld, PhaseOf, Absent
    <2>4. UNCHANGED <<ContractDue, ContractWorker>>
      BY <2>1, WorkersKept, DueKeptByStatus
    <2> QED
      BY <2>2, <2>3, <2>4 DEF Contract!Freeze, Contract!ContractNext
  <1>6. ASSUME NEW j \in JobId, AutoSettle(j)
        PROVE  Contract!ContractNext
    BY <1>6, <1>a DEF AutoSettle
  <1>7. ASSUME NEW j \in JobId, RefundExpired(j)
        PROVE  Contract!ContractNext
    <2>1. Contract!Settle(j, PhaseOf("Open"), PhaseOf("Refunded"))
      BY <1>7, RefundStep, SettlingSettles DEF RefundExpired
    <2>2. Contract!Return(j)
      BY <2>1 DEF Contract!Return, PhaseOf, Absent
    <2> QED
      BY <2>2 DEF Contract!ContractNext
  <1>8. CASE Tick
    BY <1>8 DEF Tick, ContractPhase, ContractDue, ContractHeld, ContractWorker
  <1>9. CASE UNCHANGED vars
    BY <1>9 DEF vars, ContractPhase, ContractDue, ContractHeld, ContractWorker
  <1> QED
    BY <1>1, <1>2, <1>3, <1>4, <1>5, <1>6, <1>7, <1>8, <1>9 DEF Next

\* The market implements the escrow contract: for each job, one lock, at most
\* one worker, and one release or return of no more than was locked, while the
\* instructions of other jobs draw nothing from its escrow.
THEOREM MarketImplementsContract == Spec => ImplementsContract
  <1>1. Init => Contract!ContractInit
    BY AccountFacts
       DEF Init, EmptyJob, Contract!ContractInit, ContractPhase, ContractDue, ContractHeld,
           ContractWorker, PhaseOf, Absent
  <1>2. MarketInv /\ MarketInv' /\ [Next]_vars => [Contract!ContractNext]_(Contract!cvars)
    BY StepRefines
  <1> QED
    BY <1>1, <1>2, Invariance, PTL DEF Spec, ImplementsContract, Contract!ContractSpec

-----------------------------------------------------------------------------
(* Who may act on a job.  ENABLED is not for the provers, so the guards of the four  *)
(* instructions are written out; a lemma for each says that it needs its guard, and    *)
(* that with its guard it goes through.                                              *)

ClaimReady(j) == job[j].status = "Open" /\ now < job[j].deadline

RefundReady(j) ==
    /\ job[j].status = "Open" /\ now >= job[j].deadline
    /\ tokens[j] >= job[j].payment

DisputeReady(j) ==
    /\ job[j].status = "PendingAcceptance" /\ now <= job[j].claimedAt + ChallengeWindow
    /\ job[j].client \in Wallet

SettleReady(j) ==
    /\ job[j].status = "PendingAcceptance" /\ now > job[j].claimedAt + ChallengeWindow
    /\ FeeComputable(job[j].payment) /\ tokens[j] >= job[j].payment

\* No instruction goes through without its guard.
LEMMA ReadyIsNeeded ==
    ASSUME MarketInv, NEW j \in JobId
    PROVE  /\ \A n \in Wallet : ClaimJob(n, j) => ClaimReady(j)
           /\ RefundExpired(j) => RefundReady(j)
           /\ \A c \in Wallet : DisputeResult(c, j) => DisputeReady(j)
           /\ AutoSettle(j) => SettleReady(j)
  <1>1. ASSUME NEW n \in Wallet, ClaimJob(n, j) PROVE ClaimReady(j)
    BY <1>1 DEF ClaimJob, ClaimReady
  <1>2. ASSUME RefundExpired(j) PROVE RefundReady(j)
    BY <1>2 DEF RefundExpired, RefundReady, MarketInv, EscrowCovered, Unsettled
  <1>3. ASSUME NEW c \in Wallet, DisputeResult(c, j) PROVE DisputeReady(j)
    BY <1>3 DEF DisputeResult, DisputeReady
  <1>4. ASSUME AutoSettle(j) PROVE SettleReady(j)
    BY <1>4 DEF AutoSettle, PayOut, SettleReady, MarketInv, EscrowCovered, Unsettled
  <1> QED
    BY <1>1, <1>2, <1>3, <1>4

\* A claim in time goes through.
LEMMA ClaimSucceeds ==
    ASSUME NEW j \in JobId, ClaimReady(j), NEW n \in Wallet,
           job' = [job EXCEPT ![j] = [@ EXCEPT !.status = "InProgress",
                                               !.node = n, !.claimedAt = now]],
           UNCHANGED <<now, totalJobs, tokens>>
    PROVE  ClaimJob(n, j)
  BY DEF ClaimReady, ClaimJob

\* A refund from the deadline on goes through from the escrow account, into any account
\* of its mint.
LEMMA RefundSucceeds ==
    ASSUME NEW j \in JobId, RefundReady(j),
           NEW clientAccount \in Existing, mintOf[clientAccount] = TokenMint,
           tokens' = Transfer(tokens, j, clientAccount, job[j].payment), MovedTo(j, "Refunded")
    PROVE  RefundExpired(j)
  <1>1. j \in Existing /\ ownerOf[j] = j /\ mintOf[j] = TokenMint
    BY AccountFacts DEF RefundReady, Absent
  <1>2. CanTransfer(tokens, mintOf, j, clientAccount, job[j].payment)
    BY <1>1 DEF RefundReady, CanTransfer
  <1> QED
    BY <1>1, <1>2 DEF RefundReady, RefundExpired, Refund, MovedTo

\* A dispute within the window goes through, from the client of the job.
LEMMA DisputeSucceeds ==
    ASSUME NEW j \in JobId, DisputeReady(j), UNCHANGED tokens, MovedTo(j, "Disputed")
    PROVE  DisputeResult(job[j].client, j)
  BY DEF DisputeReady, DisputeResult, MovedTo

\* A settlement after the window goes through from the escrow account, into any two
\* accounts of its mint.
LEMMA SettleSucceeds ==
    ASSUME MarketInv, NEW j \in JobId, SettleReady(j), MovedTo(j, "Completed"),
           NEW na \in Existing, NEW ta \in Existing,
           mintOf[na] = TokenMint, mintOf[ta] = TokenMint,
           tokens' = Transfer(Transfer(tokens, j, na, NodePayment(job[j].payment)),
                              j, ta, ProtocolFee(job[j].payment))
    PROVE  AutoSettle(j)
  <1> DEFINE share == NodePayment(job[j].payment)
             fee == ProtocolFee(job[j].payment)
             paid == Transfer(tokens, j, na, share)
  <1>1. j \in Existing /\ ownerOf[j] = j /\ mintOf[j] = TokenMint
    BY AccountFacts DEF SettleReady, Absent
  <1>2. j \in TokenAccount /\ na \in TokenAccount
    BY AccountFacts
  <1>3. job[j].payment \in Nat /\ tokens \in [TokenAccount -> Nat] /\ tokens[j] >= job[j].payment
    BY DEF MarketInv, TypeOK, Job, SettleReady
  <1>4. share \in Nat /\ fee \in Nat /\ share + fee = job[j].payment
    BY <1>3, FeeSplit
  <1> HIDE DEF share, fee
  <1>5. tokens[j] \in Nat /\ tokens[j] >= share /\ tokens[j] - share >= fee
    BY <1>2, <1>3, <1>4
  <1>6. paid \in [TokenAccount -> Nat] /\ paid[j] >= tokens[j] - share
    BY <1>2, <1>3, <1>4, <1>5, TransferMoves
  <1>7. paid[j] >= fee
    BY <1>2, <1>4, <1>5, <1>6
  <1>8. CanTransfer(tokens, mintOf, j, na, share) /\ CanTransfer(paid, mintOf, j, ta, fee)
    BY <1>1, <1>5, <1>7 DEF CanTransfer
  <1>9. tokens' = Transfer(paid, j, ta, fee)
    BY DEF share, fee
  <1>10. PayOut(j)
    BY <1>1, <1>8, <1>9 DEF PayOut, SettleReady, MovedTo, share, fee
  <1> QED
    BY <1>10 DEF SettleReady, AutoSettle

OneIsReady ==
    \A j \in JobId :
        /\ job[j].status = "Open" => RefundReady(j) # ClaimReady(j)
        /\ Payable(j) => SettleReady(j) # DisputeReady(j)

\* At every instant of an open job exactly one of claim and refund is possible, and of
\* a pending one, whose fee fits its type, exactly one of dispute and auto_settle
\* (lib.rs): no clock, and no shortage in the escrow account, stands in the way of both.
THEOREM OneIsAlwaysReady == Spec => []OneIsReady
  <1>1. ASSUME MarketInv PROVE OneIsReady
    <2> SUFFICES ASSUME NEW j \in JobId
                 PROVE  /\ job[j].status = "Open" => RefundReady(j) # ClaimReady(j)
                        /\ Payable(j) => SettleReady(j) # DisputeReady(j)
      BY DEF OneIsReady
    <2> USE MarketAssumption
    <2>2. now \in Nat /\ job[j].deadline \in Nat /\ job[j].claimedAt \in Nat /\ job[j].payment \in Nat
      BY <1>1 DEF MarketInv, TypeOK, Job
    <2>3. ASSUME job[j].status = "Open" PROVE RefundReady(j) # ClaimReady(j)
      <3>1. tokens[j] >= job[j].payment
        BY <1>1, <2>3 DEF MarketInv, EscrowCovered, Unsettled
      <3>2. RefundReady(j) <=> now >= job[j].deadline
        BY <2>3, <3>1 DEF RefundReady
      <3>3. ClaimReady(j) <=> now < job[j].deadline
        BY <2>3 DEF ClaimReady
      <3>4. now >= job[j].deadline <=> ~ (now < job[j].deadline)
        BY <2>2
      <3> QED
        BY <3>2, <3>3, <3>4
    <2>4. ASSUME Payable(j) PROVE SettleReady(j) # DisputeReady(j)
      <3>1. job[j].status = "PendingAcceptance" /\ FeeComputable(job[j].payment)
        BY <2>4 DEF Payable
      <3>2. tokens[j] >= job[j].payment /\ job[j].client \in Wallet
        BY <1>1, <3>1 DEF MarketInv, EscrowCovered, Unsettled, Absent, FreshSlots
      <3>5. SettleReady(j) <=> now > job[j].claimedAt + ChallengeWindow
        BY <3>1, <3>2 DEF SettleReady
      <3>6. DisputeReady(j) <=> now <= job[j].claimedAt + ChallengeWindow
        BY <3>1, <3>2 DEF DisputeReady
      <3>7. now > job[j].claimedAt + ChallengeWindow <=> ~ (now <= job[j].claimedAt + ChallengeWindow)
        BY <2>2
      <3> QED
        BY <3>5, <3>6, <3>7
    <2> QED
      BY <2>3, <2>4
  <1> QED
    BY <1>1, Invariance, PTL

-----------------------------------------------------------------------------
(* What is due stays due: the part of PendingResolves that needs no fairness. *)

SettleDue(j) == Payable(j) /\ now > job[j].claimedAt + ChallengeWindow
RefundDue(j) == job[j].status = "Open" /\ now >= job[j].deadline

\* Nothing but the instruction that is due touches the job.
DueKept ==
    \A j \in JobId :
        /\ SettleDue(j) => SettleDue(j)' \/ job'[j].status = "Completed"
        /\ RefundDue(j) => RefundDue(j)' \/ job'[j].status = "Refunded"

\* What a step may do to a job that is due: nothing, or what is due.
LEMMA DueStep ==
    ASSUME MarketInv, Next, NEW j \in JobId
    PROVE  /\ SettleDue(j) => (job'[j] = job[j] /\ now' >= now) \/ job'[j].status = "Completed"
           /\ RefundDue(j) => (job'[j] = job[j] /\ now' >= now) \/ job'[j].status = "Refunded"
  <1> DEFINE Kept == job'[j] = job[j] /\ now' >= now
             Done == /\ SettleDue(j) => Kept \/ job'[j].status = "Completed"
                     /\ RefundDue(j) => Kept \/ job'[j].status = "Refunded"
  <1>0. /\ job \in [JobId -> Job] /\ now \in Nat /\ totalJobs \in Nat
        /\ job[j].deadline \in Nat /\ job[j].claimedAt \in Nat /\ ChallengeWindow \in Nat
    BY MarketAssumption DEF MarketInv, TypeOK, Job
  <1>1. SettleDue(j) \/ RefundDue(j) => job[j].status # Absent /\ j # totalJobs
    BY <1>0 DEF SettleDue, RefundDue, Payable, MarketInv, FreshSlots, Absent, JobId
  <1>2. ASSUME NEW c \in Wallet, NEW p \in Payments, NEW d \in Deadlines, PostJob(c, p, d)
        PROVE  Done
    BY <1>0, <1>1, <1>2 DEF PostJob
  <1>3. ASSUME NEW w \in Wallet, NEW k \in JobId, ClaimJob(w, k) PROVE Done
    <2>1. CASE k = j
      BY <1>0, <1>3, <2>1 DEF ClaimJob, SettleDue, RefundDue, Payable
    <2>2. CASE k # j
      BY <1>0, <1>3, <2>2 DEF ClaimJob
    <2> QED
      BY <2>1, <2>2
  <1>4. ASSUME NEW w \in Wallet, NEW k \in JobId, SubmitResult(w, k) PROVE Done
    <2>1. CASE k = j
      BY <1>0, <1>4, <2>1 DEF SubmitResult, SettleDue, RefundDue, Payable
    <2>2. CASE k # j
      BY <1>0, <1>4, <2>2 DEF SubmitResult
    <2> QED
      BY <2>1, <2>2
  <1>5. ASSUME NEW w \in Wallet, NEW k \in JobId, DisputeResult(w, k) PROVE Done
    <2>1. CASE k = j
      BY <1>0, <1>5, <2>1 DEF DisputeResult, SettleDue, RefundDue, Payable
    <2>2. CASE k # j
      BY <1>0, <1>5, <2>2 DEF DisputeResult
    <2> QED
      BY <2>1, <2>2
  <1>6. ASSUME NEW k \in JobId, AutoSettle(k) \/ \E c \in Wallet : AcceptResult(c, k) PROVE Done
    <2>1. /\ job[k].status = "PendingAcceptance"
          /\ job' = [job EXCEPT ![k].status = "Completed"] /\ now' = now
      BY <1>6 DEF AutoSettle, AcceptResult, PayOut
    <2>2. CASE k = j
      BY <1>0, <2>1, <2>2 DEF Job, RefundDue
    <2>3. CASE k # j
      BY <1>0, <2>1, <2>3
    <2> QED
      BY <2>2, <2>3
  <1>7. ASSUME NEW k \in JobId, RefundExpired(k) PROVE Done
    <2>1. /\ job[k].status = "Open"
          /\ job' = [job EXCEPT ![k].status = "Refunded"] /\ now' = now
      BY <1>7 DEF RefundExpired, Refund
    <2>2. CASE k = j
      BY <1>0, <2>1, <2>2 DEF Job, SettleDue, Payable
    <2>3. CASE k # j
      BY <1>0, <2>1, <2>3
    <2> QED
      BY <2>2, <2>3
  <1>8. ASSUME Tick PROVE Done
    BY <1>0, <1>8 DEF Tick
  <1> QED
    BY <1>2, <1>3, <1>4, <1>5, <1>6, <1>7, <1>8 DEF Next

\* From the instant at which auto_settle or refund_expired is due for a job, the
\* instruction goes through whenever it is called, in whatever accounts and after whatever
\* steps of others, until the job is completed or refunded by it or, a pending one, by its
\* client (lib.rs): no late dispute and no late claim gets in between.
THEOREM DueStaysDue ==
    Spec => /\ [](\A j \in JobId : (SettleDue(j) => SettleReady(j)) /\ (RefundDue(j) => RefundReady(j)))
            /\ [][DueKept]_vars
  <1> DEFINE GoesThrough ==
          \A j \in JobId : (SettleDue(j) => SettleReady(j)) /\ (RefundDue(j) => RefundReady(j))
  <1>1. MarketInv /\ OneIsReady => GoesThrough
    <2> SUFFICES ASSUME MarketInv, OneIsReady, NEW j \in JobId
                 PROVE  (SettleDue(j) => SettleReady(j)) /\ (RefundDue(j) => RefundReady(j))
      OBVIOUS
    <2>1. /\ now \in Nat /\ job[j].deadline \in Nat /\ job[j].claimedAt \in Nat
          /\ ChallengeWindow \in Nat
      BY MarketAssumption DEF MarketInv, TypeOK, Job
    <2>2. SettleDue(j) => Payable(j) /\ ~ DisputeReady(j)
      BY <2>1 DEF SettleDue, DisputeReady
    <2>3. RefundDue(j) => job[j].status = "Open" /\ ~ ClaimReady(j)
      BY <2>1 DEF RefundDue, ClaimReady
    <2>4. /\ SettleReady(j) \in BOOLEAN /\ DisputeReady(j) \in BOOLEAN
          /\ RefundReady(j) \in BOOLEAN /\ ClaimReady(j) \in BOOLEAN
      BY DEF SettleReady, DisputeReady, RefundReady, ClaimReady
    <2> QED
      BY <2>2, <2>3, <2>4 DEF OneIsReady
  <1>2. MarketInv /\ [Next]_vars => [DueKept]_vars
    <2> SUFFICES ASSUME MarketInv, Next PROVE DueKept
      OBVIOUS
    <2> SUFFICES ASSUME NEW j \in JobId
                 PROVE  /\ SettleDue(j) => SettleDue(j)' \/ job'[j].status = "Completed"
                        /\ RefundDue(j) => RefundDue(j)' \/ job'[j].status = "Refunded"
      BY DEF DueKept
    <2>1. /\ now \in Nat /\ now' \in Nat
          /\ job[j].deadline \in Nat /\ job[j].claimedAt \in Nat /\ ChallengeWindow \in Nat
      BY StepInv, MarketAssumption DEF MarketInv, TypeOK, Job
    <2>2. ASSUME job'[j] = job[j], now' >= now
          PROVE  (SettleDue(j) => SettleDue(j)') /\ (RefundDue(j) => RefundDue(j)')
      BY <2>1, <2>2 DEF SettleDue, RefundDue, Payable
    <2> QED
      BY <2>2, DueStep
  <1> QED
    BY <1>1, <1>2, Invariance, OneIsAlwaysReady, PTL DEF Spec

-----------------------------------------------------------------------------
(* The tokens. *)

\* What is in the accounts of one mint, escrows and others, wherever it is.
OfMint(m) == {a \in TokenAccount : mintOf[a] = m}
TokensOf(m, t) == SumOver(t, OfMint(m))

\* There are finitely many jobs.
LEMMA JobsFinite == IsFiniteSet(JobId)
  BY FS_Interval, MarketAssumption DEF JobId

\* A transfer the token program admits leaves what there is of each mint.
LEMMA AdmittedKeepsTokens ==
    ASSUME IsFiniteSet(Account), NEW t \in [TokenAccount -> Nat], NEW m,
           NEW from \in TokenAccount, NEW to \in TokenAccount, NEW amount \in Nat,
           CanTransfer(t, mintOf, from, to, amount)
    PROVE  /\ Transfer(t, from, to, amount) \in [TokenAccount -> Nat]
           /\ TokensOf(m, Transfer(t, from, to, amount)) = TokensOf(m, t)
  <1>1. IsFiniteSet(TokenAccount)
    BY JobsFinite, FS_Union DEF TokenAccount
  <1>2. t[from] >= amount /\ (from \in OfMint(m) <=> to \in OfMint(m))
    BY DEF CanTransfer, OfMint
  <1>3. OfMint(m) \in SUBSET TokenAccount
    BY DEF OfMint
  <1>4. SumOver(Transfer(t, from, to, amount), OfMint(m)) = SumOver(t, OfMint(m))
    BY <1>1, <1>2, <1>3, TransferKeepsSum
  <1> QED
    BY <1>2, <1>4, TransferMoves DEF TokensOf

\* Every instruction moves tokens and makes or destroys none.
LEMMA StepConserves ==
    ASSUME MarketInv, IsFiniteSet(Account), [Next]_vars, NEW m
    PROVE  TokensOf(m, tokens') = TokensOf(m, tokens)
  <1>0. tokens \in [TokenAccount -> Nat]
    BY DEF MarketInv, TypeOK
  <1>1. ASSUME UNCHANGED tokens PROVE TokensOf(m, tokens') = TokensOf(m, tokens)
    BY <1>1
  <1>2. ASSUME NEW c \in Wallet, NEW p \in Payments, NEW d \in Deadlines, PostJob(c, p, d)
        PROVE  TokensOf(m, tokens') = TokensOf(m, tokens)
    <2>1. p \in Nat /\ totalJobs \in JobId
      BY <1>2, MarketAssumption DEF PostJob, MarketInv, TypeOK, JobId
    <2>2. PICK from \in Account : /\ CanTransfer(tokens, mintOf, from, totalJobs, p)
                                  /\ tokens' = Transfer(tokens, from, totalJobs, p)
      BY <1>2 DEF PostJob
    <2>3. from \in TokenAccount /\ totalJobs \in TokenAccount
      BY <2>1 DEF TokenAccount
    <2> QED
      BY <1>0, <2>1, <2>2, <2>3, AdmittedKeepsTokens
  <1>3. ASSUME NEW w \in Wallet, NEW j \in JobId,
               ClaimJob(w, j) \/ SubmitResult(w, j) \/ DisputeResult(w, j)
        PROVE  UNCHANGED tokens
    BY <1>3 DEF ClaimJob, SubmitResult, DisputeResult
  <1>4. ASSUME NEW j \in JobId, AutoSettle(j) \/ \E c \in Wallet : AcceptResult(c, j)
        PROVE  TokensOf(m, tokens') = TokensOf(m, tokens)
    <2> DEFINE share == NodePayment(job[j].payment)
               fee == ProtocolFee(job[j].payment)
    <2>1. PayOut(j)
      BY <1>4 DEF AutoSettle, AcceptResult
    <2>2. job[j].payment \in Nat
      BY DEF MarketInv, TypeOK, Job
    <2>3. share \in Nat /\ fee \in Nat
      BY <2>2, FeeSplit
    <2>4. PICK from \in Existing, na \in Existing, ta \in Existing :
              /\ CanTransfer(tokens, mintOf, from, na, share)
              /\ CanTransfer(Transfer(tokens, from, na, share), mintOf, from, ta, fee)
              /\ tokens' = Transfer(Transfer(tokens, from, na, share), from, ta, fee)
      BY <2>1 DEF PayOut
    <2>5. from \in TokenAccount /\ na \in TokenAccount /\ ta \in TokenAccount
      BY AccountFacts
    <2> DEFINE paid == Transfer(tokens, from, na, share)
    <2> HIDE DEF share, fee
    <2>6. paid \in [TokenAccount -> Nat] /\ TokensOf(m, paid) = TokensOf(m, tokens)
      BY <1>0, <2>3, <2>4, <2>5, AdmittedKeepsTokens
    <2>7. CanTransfer(paid, mintOf, from, ta, fee) /\ tokens' = Transfer(paid, from, ta, fee)
      BY <2>4
    <2> HIDE DEF paid
    <2>8. TokensOf(m, Transfer(paid, from, ta, fee)) = TokensOf(m, paid)
      BY <2>3, <2>5, <2>6, <2>7, AdmittedKeepsTokens
    <2> QED
      BY <2>6, <2>7, <2>8
  <1>5. ASSUME NEW j \in JobId, RefundExpired(j)
        PROVE  TokensOf(m, tokens') = TokensOf(m, tokens)
    <2>1. job[j].payment \in Nat
      BY DEF MarketInv, TypeOK, Job
    <2>2. PICK from \in Existing, to \in Existing :
              /\ CanTransfer(tokens, mintOf, from, to, job[j].payment)
              /\ tokens' = Transfer(tokens, from, to, job[j].payment)
      BY <1>5 DEF RefundExpired, Refund
    <2>3. from \in TokenAccount /\ to \in TokenAccount
      BY AccountFacts
    <2> QED
      BY <1>0, <2>1, <2>2, <2>3, AdmittedKeepsTokens
  <1>6. ASSUME Tick \/ UNCHANGED vars PROVE UNCHANGED tokens
    BY <1>6 DEF Tick, vars
  <1> QED
    BY <1>1, <1>2, <1>3, <1>4, <1>5, <1>6 DEF Next

\* The market makes and loses no token of any mint (lib.rs): whatever accounts callers
\* name, their own, escrows of other jobs or one account twice, what all the accounts
\* of a mint hold together is what they held before the first job.
THEOREM TokensAlwaysConserved ==
    ASSUME IsFiniteSet(Account), NEW m
    PROVE  Spec => [](TokensOf(m, tokens) = SumOver(InitialTokens, OfMint(m) \intersect Account))
  <1> DEFINE Start == SumOver(InitialTokens, OfMint(m) \intersect Account)
             Conserved == TokensOf(m, tokens) = Start
  <1>1. Init => Conserved
    <2> SUFFICES ASSUME Init PROVE Conserved
      OBVIOUS
    <2> DEFINE S == OfMint(m) \intersect Account
               E == OfMint(m) \intersect JobId
    <2>1. /\ \A a \in E : a \in JobId /\ tokens[a] = 0
          /\ \A a \in S : tokens[a] = InitialTokens[a] /\ tokens[a] \in Nat /\ InitialTokens[a] \in Int
      BY MarketAssumption DEF Init, TokenAccount
    <2>2. IsFiniteSet(S) /\ IsFiniteSet(E)
      BY JobsFinite, FS_Intersection
    <2>3. S \intersect E = {} /\ OfMint(m) = S \union E
      BY MarketAssumption DEF OfMint, TokenAccount
    <2> HIDE DEF S, E
    <2>4. SumOver(tokens, E) = 0
      BY <2>1, <2>2, SumOfZeros
    <2>5. SumOver(tokens, S) = SumOver(InitialTokens, S)
      BY <2>1, <2>2, SumAgrees
    <2>6. SumOver(tokens, S) \in Int
      BY <2>1, <2>2, SumIsInteger
    <2>7. SumOver(tokens, S \union E) = SumOver(tokens, S) + SumOver(tokens, E)
      BY <2>1, <2>2, <2>3, SumUnion
    <2>8. SumOver(tokens, OfMint(m)) = SumOver(InitialTokens, S)
      BY <2>3, <2>4, <2>5, <2>6, <2>7
    <2> QED
      BY <2>8 DEF TokensOf, S
  <1>2. MarketInv /\ Conserved /\ [Next]_vars => Conserved'
    BY StepConserves
  <1> QED
    BY <1>1, <1>2, Invariance, PTL DEF Spec
=============================================================================
