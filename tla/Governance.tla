------------------------------ MODULE Governance ------------------------------
(***************************************************************************)
(* The DAO program (programs/governance/src/lib.rs): proposals with a bond, *)
(* votes weighed by token balance, a quorum and a super-majority, and a     *)
(* time-lock before execution.                                             *)
(*                                                                         *)
(* Voting power is the balance at the moment of the vote.  Token holders    *)
(* may move tokens at any time (Send: the token program), so the same       *)
(* token can weigh in two votes; the program says so and this model keeps   *)
(* it.                                                                     *)
(*                                                                         *)
(* The program ties no token account to a key, a proposal or the mint of     *)
(* the DAO.  The bond goes from any account of the proposer into any        *)
(* account, the proposer's own among them, and on success one bond leaves   *)
(* any account of the proposal; a vote weighs what is in the account the    *)
(* voter names.  All that protects them is that an account is drawn on with *)
(* its owner's signature.                                                  *)
(***************************************************************************)
EXTENDS Integers, FiniteSets, FiniteSetsExt, TokenProgram

CONSTANTS
    Voter,            \* the keys that propose and vote
    Account,          \* the token accounts
    Owner,            \* the owner of each: a voter, the address of a proposal, another key
    Mint,             \* the mint of each
    InitialTokens,    \* tokens in each of them at the start
    Amounts,          \* the amounts holders send to each other
    TotalSupply,      \* dao.total_supply, as given to initialize
    Bond,             \* PROPOSAL_BOND
    VotingPeriod,     \* VOTING_PERIOD_SECONDS, in ticks of the clock
    ExecutionDelay,   \* EXECUTION_DELAY_SECONDS, in ticks of the clock
    U64Max,           \* the largest u64
    MaxProposals,     \* bound: proposals created
    MaxTime           \* bound: the clock

\* The address of a proposal is named by its id.
ProposalId == 0 .. MaxProposals - 1

ASSUME GovernanceAssumption ==
    /\ Voter \intersect ProposalId = {}
    /\ InitialTokens \in [Account -> Nat]
    /\ Amounts \subseteq Nat
    /\ TotalSupply \in Nat
    /\ Bond \in Nat \ {0}
    /\ VotingPeriod \in Nat
    /\ ExecutionDelay \in Nat
    /\ U64Max \in Nat
    /\ MaxProposals \in Nat
    /\ MaxTime \in Nat

VARIABLES
    now,              \* Clock::get()?.unix_timestamp
    totalProposals,   \* dao.total_proposals
    status,           \* proposal.status, "absent" before its account exists
    tally,            \* votes_for, votes_against and votes_abstain
    endsAt,           \* proposal.voting_ends_at
    executableAt,     \* proposal.executable_at
    ballot,           \* the vote record of each proposal and key
    tokens            \* what is in each token account

clocks == <<endsAt, executableAt>>
vars == <<now, totalProposals, status, tally, clocks, ballot, tokens>>

QUORUM_BPS == 400
PASS_THRESHOLD_BPS == 6000

ProposalStatus == {"absent", "Active", "Passed", "Failed", "Executed"}
VoteChoice == {"For", "Against", "Abstain"}
NoVote == [choice |-> "none", power |-> 0]
VoteRecord == [choice : VoteChoice \union {"none"}, power : Nat]
HasVoted(i, v) == ballot[i][v].choice # "none"

TotalVotes(i) == tally[i]["For"] + tally[i]["Against"] + tally[i]["Abstain"]

-----------------------------------------------------------------------------
\* The names that end in _Bad are defective variants of the definition that
\* follows them; no specification uses them.  Each breaks one property below,
\* which shows that the property says something about the code.

\* initialize: the dao account exists and there is no proposal.
Init ==
    /\ now = 0
    /\ totalProposals = 0
    /\ status = [i \in ProposalId |-> "absent"]
    /\ tally = [i \in ProposalId |-> [c \in VoteChoice |-> 0]]
    /\ endsAt = [i \in ProposalId |-> 0]
    /\ executableAt = [i \in ProposalId |-> 0]
    /\ ballot = [i \in ProposalId |-> [v \in Voter |-> NoVote]]
    /\ tokens = InitialTokens

\* create_proposal: v pays the bond out of an account of its own into any account.
CreateProposal(v) ==
    /\ totalProposals < MaxProposals
    /\ \E from, to \in Account :
          /\ Owner[from] = v
          /\ CanTransfer(tokens, Mint, from, to, Bond)
          /\ tokens' = Transfer(tokens, from, to, Bond)
    /\ status' = [status EXCEPT ![totalProposals] = "Active"]
    /\ endsAt' = [endsAt EXCEPT ![totalProposals] = now + VotingPeriod]
    /\ totalProposals' = totalProposals + 1
    /\ UNCHANGED <<now, tally, executableAt, ballot>>

\* The vote of v counts with a power above zero, and is recorded.
Count(v, i, c, power) ==
    /\ power > 0
    /\ tally[i][c] + power <= U64Max
    /\ ballot' = [ballot EXCEPT ![i][v] = [choice |-> c, power |-> power]]
    /\ tally' = [tally EXCEPT ![i][c] = @ + power]
    /\ UNCHANGED <<now, totalProposals, status, clocks, tokens>>

\* A key that votes again replaces its vote record.
CastVoteAgain_Bad(v, i, c) ==
    /\ status[i] = "Active"
    /\ now <= endsAt[i]
    /\ \E a \in Account : Count(v, i, c, tokens[a])

\* Votes are still counted after the outcome was decided.
CastVoteLate_Bad(v, i, c) ==
    /\ status[i] # "absent"
    /\ ~HasVoted(i, v)
    /\ \E a \in Account : Count(v, i, c, tokens[a])

\* cast_vote: once for each key, up to and including the end of the period, with the
\* tokens of any account.
CastVote(v, i, c) ==
    /\ status[i] = "Active"
    /\ now <= endsAt[i]
    /\ ~HasVoted(i, v)
    /\ \E a \in Account : Count(v, i, c, tokens[a])

Quorum == (TotalSupply * QUORUM_BPS) \div 10000
PassThreshold(i) == (TotalVotes(i) * PASS_THRESHOLD_BPS) \div 10000
ReachesQuorum(i) == TotalVotes(i) >= Quorum
Passes(i) == ReachesQuorum(i) /\ tally[i]["For"] >= PassThreshold(i)

\* The checked products and sums panic outside u64.
FinalizeComputable(i) ==
    /\ TotalVotes(i) <= U64Max
    /\ TotalSupply * QUORUM_BPS <= U64Max
    /\ ReachesQuorum(i) => TotalVotes(i) * PASS_THRESHOLD_BPS <= U64Max

\* finalize_proposal: anybody, after the end of the period.
FinalizeProposal(i) ==
    /\ status[i] = "Active"
    /\ now > endsAt[i]
    /\ FinalizeComputable(i)
    /\ status' = [status EXCEPT ![i] = IF Passes(i) THEN "Passed" ELSE "Failed"]
    /\ executableAt' = [executableAt EXCEPT ![i] = IF Passes(i) THEN now + ExecutionDelay ELSE @]
    /\ UNCHANGED <<now, totalProposals, tally, endsAt, ballot, tokens>>

\* A bond leaves an account for which the address of proposal i can sign.
PayBondOf(i) ==
    \E from, to \in Account :
        /\ Owner[from] = i
        /\ CanTransfer(tokens, Mint, from, to, Bond)
        /\ tokens' = Transfer(tokens, from, to, Bond)

\* The status is not advanced, so a proposal can be executed again.
ExecuteTwice_Bad(i) ==
    /\ status[i] = "Passed"
    /\ now >= executableAt[i]
    /\ PayBondOf(i)
    /\ UNCHANGED <<now, totalProposals, status, tally, clocks, ballot>>

\* execute_proposal: anybody, from executable_at on.
ExecuteProposal(i) ==
    /\ status[i] = "Passed"
    /\ now >= executableAt[i]
    /\ PayBondOf(i)
    /\ status' = [status EXCEPT ![i] = "Executed"]
    /\ UNCHANGED <<now, totalProposals, tally, clocks, ballot>>

\* The token program: v sends tokens of an account of its own to another.
Send(v, amount) ==
    /\ \E from, to \in Account :
          /\ Owner[from] = v
          /\ CanTransfer(tokens, Mint, from, to, amount)
          /\ tokens' = Transfer(tokens, from, to, amount)
    /\ UNCHANGED <<now, totalProposals, status, tally, clocks, ballot>>

\* The cluster's clock.
Tick ==
    /\ now < MaxTime
    /\ now' = now + 1
    /\ UNCHANGED <<totalProposals, status, tally, clocks, ballot, tokens>>

Next ==
    \/ \E v \in Voter : CreateProposal(v)
    \/ \E v \in Voter, i \in ProposalId, c \in VoteChoice : CastVote(v, i, c)
    \/ \E i \in ProposalId : FinalizeProposal(i) \/ ExecuteProposal(i)
    \/ \E v \in Voter, amount \in Amounts : Send(v, amount)
    \/ Tick

Spec == Init /\ [][Next]_vars

-----------------------------------------------------------------------------
(* Properties. *)

TypeOK ==
    /\ now \in Nat
    /\ totalProposals \in 0 .. MaxProposals
    /\ status \in [ProposalId -> ProposalStatus]
    /\ tally \in [ProposalId -> [VoteChoice -> Nat]]
    /\ endsAt \in [ProposalId -> Nat]
    /\ executableAt \in [ProposalId -> Nat]
    /\ ballot \in [ProposalId -> [Voter -> VoteRecord]]
    /\ tokens \in [Account -> Nat]

\* Each tally is the sum of the vote records for that choice: no key is counted
\* twice or under two choices, whatever tokens move between the votes.
TalliesMatchBallots ==
    \A i \in ProposalId, c \in VoteChoice :
        LET power == [v \in Voter |-> ballot[i][v].power]
        IN tally[i][c] = MapThenSumSet(LAMBDA v : power[v], {v \in Voter : ballot[i][v].choice = c})

\* The outcome on record is the one its votes give, at any later time: a passed
\* or executed proposal has, to within the rounding of one unit, the quorum and
\* 60% of the votes, and a failed one lacks one of the two.
OutcomeFitsTally ==
    \A i \in ProposalId :
        /\ status[i] \in {"Passed", "Executed"} =>
              /\ TotalVotes(i) * 10000 + 10000 > TotalSupply * QUORUM_BPS
              /\ tally[i]["For"] * 10000 + 10000 > TotalVotes(i) * PASS_THRESHOLD_BPS
        /\ status[i] = "Failed" =>
              \/ TotalVotes(i) * 10000 < TotalSupply * QUORUM_BPS
              \/ tally[i]["For"] * 10000 < TotalVotes(i) * PASS_THRESHOLD_BPS

\* A proposal is executed only when its whole voting period and, after it, the
\* whole time-lock have passed.
NoEarlyExecution ==
    \A i \in ProposalId :
        status[i] = "Executed" => now > endsAt[i] + ExecutionDelay

\* What accounts of a proposal hold, a bond or more, leaves them once: exactly one bond,
\* with the execution of that proposal after its vote and its time-lock, and never when
\* it failed, whatever other proposals, voters and senders name (lib.rs, execute_proposal).
BondLeavesOnce ==
    [][\A a \in Account, i \in ProposalId :
          Owner[a] = i /\ tokens'[a] < tokens[a] =>
              /\ tokens[a] - tokens'[a] = Bond
              /\ status[i] = "Passed" /\ status'[i] = "Executed"
              /\ now > endsAt[i] + ExecutionDelay]_vars

\* lib.rs line 198, "Execute a passed proposal after the time-lock delay".
ExecutableAfterTimelock ==
    \A i \in ProposalId :
        status[i] = "Passed" /\ now >= executableAt[i] => ENABLED ExecuteProposal(i)

=============================================================================
