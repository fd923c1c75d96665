--------------------------- MODULE GovernanceProofs ---------------------------
(***************************************************************************)
(* Proofs about the DAO, for any keys, token accounts, supply, bond, period *)
(* and time-lock.                                                          *)
(*                                                                         *)
(* OutcomeFitsTally is not inductive alone: a vote must find a proposal     *)
(* that still has no outcome.  NoEarlyExecution needs that executable_at    *)
(* was set by a count that came after the end of the vote (TimelockSet),    *)
(* and so does BondLeavesOnce.  The tallies and what there is of a mint are  *)
(* sums over any number of keys and accounts: a step changes a term or two,  *)
(* and CollectionTheorems says what becomes of the sum.                     *)
(***************************************************************************)
EXTENDS Governance, CollectionTheorems, TLAPS

\* A proposal that passed waits the whole time-lock from a later moment than
\* the end of its vote.
TimelockSet ==
    \A i \in ProposalId :
        status[i] = "Passed" => executableAt[i] > endsAt[i] + ExecutionDelay

\* Slots of proposals that were not created have neither votes nor an outcome.
FreshSlots ==
    \A i \in ProposalId : i >= totalProposals => status[i] = "absent"

\* The inductive invariant.
GovernanceInv ==
    /\ TypeOK
    /\ FreshSlots
    /\ TimelockSet
    /\ NoEarlyExecution
    /\ OutcomeFitsTally

\* Tokens went, in a transfer the token program admits, from an account of owner o.
Moved(o, amount) ==
    \E from, to \in Account :
        /\ Owner[from] = o
        /\ CanTransfer(tokens, Mint, from, to, amount)
        /\ tokens' = Transfer(tokens, from, to, amount)

-----------------------------------------------------------------------------
\* What a transfer leaves: numbers, and all that other owners have.
LEMMA MovedStep ==
    ASSUME TypeOK, NEW o, NEW amount \in Nat, Moved(o, amount)
    PROVE  /\ tokens' \in [Account -> Nat]
           /\ \A a \in Account : tokens'[a] < tokens[a] =>
                 Owner[a] = o /\ tokens[a] - tokens'[a] = amount
  <1>1. tokens \in [Account -> Nat]
    BY DEF TypeOK
  <1>2. PICK from \in Account, to \in Account :
            /\ Owner[from] = o /\ tokens[from] >= amount
            /\ tokens' = Transfer(tokens, from, to, amount)
    BY DEF Moved, CanTransfer
  <1>3. /\ tokens' \in [Account -> Nat]
        /\ \A a \in Account \ {from} : tokens'[a] >= tokens[a]
        /\ from # to => tokens'[from] = tokens[from] - amount
        /\ from = to => tokens' = tokens
    BY <1>1, <1>2, TransferMoves
  <1>4. ASSUME NEW a \in Account, tokens'[a] < tokens[a]
        PROVE  Owner[a] = o /\ tokens[a] - tokens'[a] = amount
    <2>1. tokens[a] \in Nat /\ tokens'[a] \in Nat
      BY <1>1, <1>3
    <2>2. a = from /\ from # to
      BY <1>3, <1>4, <2>1
    <2> QED
      BY <1>2, <1>3, <2>1, <2>2
  <1> QED
    BY <1>3, <1>4

\* The votes of a proposal add up to a number.
LEMMA TotalVotesType ==
    ASSUME TypeOK, NEW i \in ProposalId
    PROVE  /\ tally[i]["For"] \in Nat
           /\ TotalVotes(i) \in Nat
  BY DEF TypeOK, TotalVotes, VoteChoice

\* Rounding a share in basis points down loses less than one unit.
LEMMA FloorOfShare ==
    ASSUME NEW amount \in Nat, NEW total \in Nat
    PROVE  /\ amount >= (total * QUORUM_BPS) \div 10000 =>
                 amount * 10000 + 10000 > total * QUORUM_BPS
           /\ ~(amount >= (total * QUORUM_BPS) \div 10000) =>
                 amount * 10000 < total * QUORUM_BPS
           /\ amount >= (total * PASS_THRESHOLD_BPS) \div 10000 =>
                 amount * 10000 + 10000 > total * PASS_THRESHOLD_BPS
           /\ ~(amount >= (total * PASS_THRESHOLD_BPS) \div 10000) =>
                 amount * 10000 < total * PASS_THRESHOLD_BPS
  BY DEF QUORUM_BPS, PASS_THRESHOLD_BPS

\* What finalize_proposal compares is, up to a unit, the quorum and the 60%.
LEMMA PassesMeansMajority ==
    ASSUME TypeOK, NEW i \in ProposalId
    PROVE  /\ Passes(i) =>
                 /\ TotalVotes(i) * 10000 + 10000 > TotalSupply * QUORUM_BPS
                 /\ tally[i]["For"] * 10000 + 10000 > TotalVotes(i) * PASS_THRESHOLD_BPS
           /\ ~Passes(i) =>
                 \/ TotalVotes(i) * 10000 < TotalSupply * QUORUM_BPS
                 \/ tally[i]["For"] * 10000 < TotalVotes(i) * PASS_THRESHOLD_BPS
  BY TotalVotesType, FloorOfShare, GovernanceAssumption
     DEF Passes, ReachesQuorum, Quorum, PassThreshold

LEMMA InitInv == Init => GovernanceInv
  BY GovernanceAssumption
     DEF Init, GovernanceInv, TypeOK, FreshSlots, TimelockSet, NoEarlyExecution,
         OutcomeFitsTally, ProposalStatus, VoteRecord, NoVote

LEMMA StepInv == GovernanceInv /\ [Next]_vars => GovernanceInv'
  <1> SUFFICES ASSUME GovernanceInv, [Next]_vars PROVE GovernanceInv'
    OBVIOUS
  <1> USE GovernanceAssumption DEF GovernanceInv
  <1>1. ASSUME NEW v \in Voter, CreateProposal(v)
        PROVE  GovernanceInv'
    <2> DEFINE i == totalProposals
    <2>1. /\ i \in ProposalId /\ i + 1 \in 0 .. MaxProposals
          /\ status[i] = "absent"
          /\ now + VotingPeriod \in Nat
      BY <1>1 DEF CreateProposal, TypeOK, FreshSlots, ProposalId
    <2>2. /\ totalProposals' = i + 1
          /\ status' = [status EXCEPT ![i] = "Active"]
          /\ endsAt' = [endsAt EXCEPT ![i] = now + VotingPeriod]
          /\ UNCHANGED <<now, tally, executableAt, ballot>>
      BY <1>1 DEF CreateProposal
    <2>0. tokens' \in [Account -> Nat]
      BY <1>1, MovedStep DEF CreateProposal, Moved
    <2> HIDE DEF i
    <2>3. TypeOK'
      BY <2>0, <2>1, <2>2 DEF TypeOK, ProposalStatus
    <2>4. FreshSlots'
      <3>1. totalProposals = i
        BY DEF i
      <3> QED
        BY <2>1, <2>2, <3>1 DEF FreshSlots, ProposalId, TypeOK
    <2>5. TimelockSet' /\ NoEarlyExecution'
      BY <2>1, <2>2 DEF TimelockSet, NoEarlyExecution, TypeOK
    <2>6. OutcomeFitsTally'
      BY <2>1, <2>2 DEF OutcomeFitsTally, TotalVotes, TypeOK
    <2> QED
      BY <2>3, <2>4, <2>5, <2>6
  <1>2. ASSUME NEW v \in Voter, NEW i \in ProposalId, NEW c \in VoteChoice, CastVote(v, i, c)
        PROVE  GovernanceInv'
    <2>0. PICK a \in Account : Count(v, i, c, tokens[a])
      BY <1>2 DEF CastVote
    <2>1. /\ tally[i][c] + tokens[a] \in Nat
          /\ [choice |-> c, power |-> tokens[a]] \in VoteRecord
          /\ status[i] = "Active"
      BY <1>2 DEF CastVote, TypeOK, VoteRecord
    <2>2. /\ ballot' = [ballot EXCEPT ![i][v] = [choice |-> c, power |-> tokens[a]]]
          /\ tally' = [tally EXCEPT ![i][c] = tally[i][c] + tokens[a]]
          /\ UNCHANGED <<now, totalProposals, status, endsAt, executableAt, tokens>>
      BY <2>0 DEF Count, clocks
    <2>3. TypeOK'
      BY <2>1, <2>2 DEF TypeOK
    <2>4. FreshSlots' /\ TimelockSet' /\ NoEarlyExecution'
      BY <2>2 DEF FreshSlots, TimelockSet, NoEarlyExecution
    <2>5. OutcomeFitsTally'
      <3>1. \A k \in ProposalId \ {i} : tally'[k] = tally[k]
        BY <2>2 DEF TypeOK
      <3> QED
        BY <2>1, <2>2, <3>1 DEF OutcomeFitsTally, TotalVotes
    <2> QED
      BY <2>3, <2>4, <2>5
  <1>3. ASSUME NEW i \in ProposalId, FinalizeProposal(i)
        PROVE  GovernanceInv'
    <2>1. /\ status[i] = "Active" /\ now > endsAt[i]
          /\ now + ExecutionDelay \in Nat /\ now + ExecutionDelay > endsAt[i] + ExecutionDelay
      BY <1>3 DEF FinalizeProposal, TypeOK
    <2>2. /\ status' = [status EXCEPT ![i] = IF Passes(i) THEN "Passed" ELSE "Failed"]
          /\ executableAt' = [executableAt EXCEPT ![i] =
                                 IF Passes(i) THEN now + ExecutionDelay ELSE executableAt[i]]
          /\ UNCHANGED <<now, totalProposals, tally, endsAt, ballot, tokens>>
      BY <1>3 DEF FinalizeProposal
    <2>3. TypeOK'
      BY <2>1, <2>2 DEF TypeOK, ProposalStatus
    <2>4. FreshSlots'
      BY <2>1, <2>2 DEF FreshSlots, TypeOK
    <2>5. TimelockSet' /\ NoEarlyExecution'
      BY <2>1, <2>2 DEF TimelockSet, NoEarlyExecution, TypeOK
    <2>6. OutcomeFitsTally'
      <3> SUFFICES ASSUME NEW k \in ProposalId
                   PROVE  /\ status'[k] \in {"Passed", "Executed"} =>
                               /\ TotalVotes(k) * 10000 + 10000 > TotalSupply * QUORUM_BPS
                               /\ tally[k]["For"] * 10000 + 10000 > TotalVotes(k) * PASS_THRESHOLD_BPS
                          /\ status'[k] = "Failed" =>
                               \/ TotalVotes(k) * 10000 < TotalSupply * QUORUM_BPS
                               \/ tally[k]["For"] * 10000 < TotalVotes(k) * PASS_THRESHOLD_BPS
        BY <2>2 DEF OutcomeFitsTally, TotalVotes
      <3>1. CASE k # i
        <4>1. status'[k] = status[k]
          BY <2>2, <3>1 DEF TypeOK
        <4> QED
          BY <4>1 DEF OutcomeFitsTally
      <3>2. CASE k = i
        <4>1. status'[i] = IF Passes(i) THEN "Passed" ELSE "Failed"
          BY <2>2 DEF TypeOK
        <4> QED
          BY <3>2, <4>1, PassesMeansMajority
      <3> QED
        BY <3>1, <3>2
    <2> QED
      BY <2>3, <2>4, <2>5, <2>6
  <1>4. ASSUME NEW i \in ProposalId, ExecuteProposal(i)
        PROVE  GovernanceInv'
    <2>1. /\ status[i] = "Passed" /\ now >= executableAt[i]
          /\ Bond \in Nat /\ Moved(i, Bond)
      BY <1>4 DEF ExecuteProposal, PayBondOf, Moved
    <2>2. /\ tokens' \in [Account -> Nat]
          /\ status' = [status EXCEPT ![i] = "Executed"]
          /\ UNCHANGED <<now, totalProposals, tally, endsAt, executableAt, ballot>>
      BY <1>4, <2>1, MovedStep DEF ExecuteProposal, clocks
    <2>3. TypeOK'
      BY <2>1, <2>2 DEF TypeOK, ProposalStatus
    <2>4. FreshSlots' /\ TimelockSet'
      BY <2>1, <2>2 DEF FreshSlots, TimelockSet, TypeOK
    <2>5. NoEarlyExecution'
      BY <2>1, <2>2 DEF TimelockSet, NoEarlyExecution, TypeOK
    <2>6. OutcomeFitsTally'
      BY <2>1, <2>2 DEF OutcomeFitsTally, TotalVotes, TypeOK
    <2> QED
      BY <2>3, <2>4, <2>5, <2>6
  <1>5. ASSUME NEW v \in Voter, NEW amount \in Amounts, Send(v, amount)
        PROVE  GovernanceInv'
    <2>1. amount \in Nat /\ Moved(v, amount)
      BY <1>5 DEF Send, Moved
    <2>2. /\ tokens' \in [Account -> Nat]
          /\ UNCHANGED <<now, totalProposals, status, tally, endsAt, executableAt, ballot>>
      BY <1>5, <2>1, MovedStep DEF Send, clocks
    <2>3. TypeOK'
      BY <2>2 DEF TypeOK
    <2> QED
      BY <2>2, <2>3 DEF FreshSlots, TimelockSet, NoEarlyExecution, OutcomeFitsTally, TotalVotes
  <1>6. CASE Tick
    <2>1. /\ now' = now + 1
          /\ UNCHANGED <<totalProposals, status, tally, endsAt, executableAt, ballot,
                         tokens>>
      BY <1>6 DEF Tick, clocks
    <2>2. TypeOK'
      BY <2>1 DEF TypeOK
    <2>3. NoEarlyExecution'
      BY <2>1 DEF NoEarlyExecution, TypeOK
    <2> QED
      BY <2>1, <2>2, <2>3 DEF FreshSlots, TimelockSet, OutcomeFitsTally, TotalVotes
  <1>7. CASE UNCHANGED vars
    BY <1>7 DEF vars, clocks, TypeOK, FreshSlots, TimelockSet, NoEarlyExecution,
                OutcomeFitsTally, TotalVotes
  <1> QED
    BY <1>1, <1>2, <1>3, <1>4, <1>5, <1>6, <1>7 DEF Next

\* The inductive invariant holds in every state of every behaviour.
THEOREM Invariance == Spec => []GovernanceInv
  <1>1. Init => GovernanceInv
    BY InitInv
  <1>2. GovernanceInv /\ [Next]_vars => GovernanceInv'
    BY StepInv
  <1> QED
    BY <1>1, <1>2, PTL DEF Spec

\* No token account or tally is ever negative.
THEOREM TypeCorrect == Spec => []TypeOK
  <1>1. GovernanceInv => TypeOK
    BY DEF GovernanceInv
  <1> QED
    BY <1>1, Invariance, PTL

\* An outcome always is the one the votes give, to within the rounding.
THEOREM OutcomeAlwaysFits == Spec => []OutcomeFitsTally
  <1>1. GovernanceInv => OutcomeFitsTally
    BY DEF GovernanceInv
  <1> QED
    BY <1>1, Invariance, PTL

\* No proposal is executed before its vote and its time-lock are over.
THEOREM NeverExecutedEarly == Spec => []NoEarlyExecution
  <1>1. GovernanceInv => NoEarlyExecution
    BY DEF GovernanceInv
  <1> QED
    BY <1>1, Invariance, PTL

-----------------------------------------------------------------------------
(* The tallies are sums of vote records. *)

Power(b) == [v \in Voter |-> b[v].power]
For(b, c) == {v \in Voter : b[v].choice = c}
Match(t, b) == \A i \in ProposalId, c \in VoteChoice : t[i][c] = SumOver(Power(b[i]), For(b[i], c))

\* A vote adds its power to one tally: the records of the others stay as they are.
LEMMA VoteAdds ==
    ASSUME IsFiniteSet(Voter), NEW b \in [Voter -> VoteRecord], NEW v \in Voter,
           b[v].choice = "none", NEW c \in VoteChoice, NEW p \in Nat,
           NEW d \in VoteChoice, NEW e, e = [b EXCEPT ![v] = [choice |-> c, power |-> p]]
    PROVE  SumOver(Power(e), For(e, d)) =
               SumOver(Power(b), For(b, d)) + (IF d = c THEN p ELSE 0)
  <1>1. \A w \in Voter : e[w] = IF w = v THEN [choice |-> c, power |-> p] ELSE b[w]
    OBVIOUS
  <1>2. IsFiniteSet(For(b, d)) /\ v \notin For(b, d) /\ For(b, d) \subseteq Voter
    BY FS_Subset DEF For, VoteChoice
  <1>3. /\ \A w \in Voter : Power(b)[w] \in Int /\ Power(e)[w] \in Int
        /\ \A w \in For(b, d) : Power(e)[w] = Power(b)[w]
        /\ Power(e)[v] = p
    BY <1>1, <1>2 DEF Power, VoteRecord
  <1>4. SumOver(Power(e), For(b, d)) = SumOver(Power(b), For(b, d))
    BY <1>2, <1>3, SumAgrees
  <1>5. SumOver(Power(b), For(b, d)) \in Int
    BY <1>2, <1>3, SumIsInteger
  <1>6. CASE d = c
    <2>1. For(e, d) = For(b, d) \union {v}
      BY <1>1, <1>6 DEF For
    <2>2. \A y \in For(b, d) \union {v} : Power(e)[y] \in Int
      BY <1>2, <1>3
    <2>3. SumOver(Power(e), For(b, d) \union {v}) = Power(e)[v] + SumOver(Power(e), For(b, d))
      BY <1>2, <2>2, SumAddElement
    <2>4. SumOver(Power(e), For(e, d)) = p + SumOver(Power(b), For(b, d))
      BY <1>3, <1>4, <2>1, <2>3
    <2> QED
      BY <1>5, <1>6, <2>4
  <1>7. CASE d # c
    <2>1. For(e, d) = For(b, d)
      BY <1>1, <1>7, <1>2 DEF For
    <2>2. SumOver(Power(e), For(e, d)) = SumOver(Power(b), For(b, d))
      BY <1>4, <2>1
    <2> QED
      BY <1>5, <1>7, <2>2
  <1> QED
    BY <1>6, <1>7

\* Each tally always is the sum of the records of those that voted so, for any number
\* of keys and whatever tokens move (lib.rs, cast_vote).
THEOREM TalliesAlwaysMatch ==
    ASSUME IsFiniteSet(Voter)
    PROVE  Spec => []TalliesMatchBallots
  <1>1. /\ TalliesMatchBallots <=> Match(tally, ballot)
        /\ TalliesMatchBallots' <=> Match(tally', ballot')
    <2>1. TalliesMatchBallots <=> Match(tally, ballot)
      BY ZenonT(60) DEF TalliesMatchBallots, Match, SumOver, Power, For
    <2>2. (TalliesMatchBallots <=> Match(tally, ballot))'
      BY <2>1, PTL
    <2> QED
      BY <2>1, <2>2
  <1>2. Init => TalliesMatchBallots
    <2> SUFFICES ASSUME Init, NEW i \in ProposalId, NEW c \in VoteChoice
                 PROVE  tally[i][c] = SumOver(Power(ballot[i]), For(ballot[i], c))
      BY <1>1 DEF Match
    <2>1. For(ballot[i], c) = {}
      BY DEF Init, For, NoVote, VoteChoice
    <2>2. tally[i][c] = 0
      BY DEF Init
    <2> QED
      BY <2>1, <2>2, SumEmpty
  <1>3. GovernanceInv /\ TalliesMatchBallots /\ [Next]_vars => TalliesMatchBallots'
    <2> SUFFICES ASSUME GovernanceInv, TalliesMatchBallots, [Next]_vars
                 PROVE  TalliesMatchBallots'
      OBVIOUS
    <2>1. ASSUME UNCHANGED <<tally, ballot>> PROVE TalliesMatchBallots'
      BY <1>1, <2>1
    <2>2. ASSUME NEW v \in Voter, NEW i \in ProposalId, NEW c \in VoteChoice, CastVote(v, i, c)
          PROVE  TalliesMatchBallots'
      <3> SUFFICES ASSUME NEW k \in ProposalId, NEW d \in VoteChoice
                   PROVE  tally'[k][d] = SumOver(Power(ballot'[k]), For(ballot'[k], d))
        BY <1>1 DEF Match
      <3>0. PICK a \in Account : Count(v, i, c, tokens[a])
        BY <2>2 DEF CastVote
      <3>1. /\ ballot \in [ProposalId -> [Voter -> VoteRecord]]
            /\ tally \in [ProposalId -> [VoteChoice -> Nat]] /\ tokens[a] \in Nat
            /\ tally[k][d] = SumOver(Power(ballot[k]), For(ballot[k], d))
        BY <1>1 DEF GovernanceInv, TypeOK, Match
      <3>2. CASE k # i
        BY <3>0, <3>1, <3>2 DEF Count
      <3>3. CASE k = i
        <4>1. ballot[i][v].choice = "none" /\ tokens[a] \in Nat
          BY <2>2, <3>1 DEF CastVote, HasVoted
        <4>2. ballot'[i] = [ballot[i] EXCEPT ![v] = [choice |-> c, power |-> tokens[a]]]
          BY <3>0, <3>1 DEF Count
        <4>3. SumOver(Power(ballot'[i]), For(ballot'[i], d)) =
                  SumOver(Power(ballot[i]), For(ballot[i], d)) + (IF d = c THEN tokens[a] ELSE 0)
          BY <3>1, <4>1, <4>2, VoteAdds
        <4>4. tally'[i][d] = tally[i][d] + (IF d = c THEN tokens[a] ELSE 0)
          BY <3>0, <3>1, <4>1 DEF Count
        <4>5. tally[i][d] = SumOver(Power(ballot[i]), For(ballot[i], d))
          BY <3>1, <3>3
        <4>6. tally'[i][d] = SumOver(Power(ballot'[i]), For(ballot'[i], d))
          BY <4>3, <4>4, <4>5
        <4> QED
          BY <3>3, <4>6
      <3> QED
        BY <3>2, <3>3
    <2>3. ASSUME NEW v \in Voter, CreateProposal(v)
          PROVE  TalliesMatchBallots'
      BY <2>1, <2>3 DEF CreateProposal
    <2>4. ASSUME NEW i \in ProposalId, FinalizeProposal(i) \/ ExecuteProposal(i)
          PROVE  TalliesMatchBallots'
      BY <2>1, <2>4 DEF FinalizeProposal, ExecuteProposal
    <2>5. ASSUME NEW v \in Voter, NEW amount \in Amounts, Send(v, amount)
          PROVE  TalliesMatchBallots'
      BY <2>1, <2>5 DEF Send
    <2>6. CASE Tick \/ UNCHANGED vars
      BY <2>1, <2>6 DEF vars, Tick
    <2> QED
      BY <2>2, <2>3, <2>4, <2>5, <2>6 DEF Next
  <1> QED
    BY <1>2, <1>3, Invariance, PTL DEF Spec

-----------------------------------------------------------------------------
(* The bonds. *)

\* What accounts of a proposal hold leaves them once, one bond with the execution of
\* that proposal (lib.rs, create_proposal and execute_proposal), for any accounts that
\* voters, senders and other proposals draw on or pay into.
THEOREM BondsLeaveOnce == Spec => BondLeavesOnce
  <1> DEFINE Leaves(a, i) ==
          Owner[a] = i /\ tokens'[a] < tokens[a] =>
              /\ tokens[a] - tokens'[a] = Bond
              /\ status[i] = "Passed" /\ status'[i] = "Executed"
              /\ now > endsAt[i] + ExecutionDelay
  <1>1. GovernanceInv /\ [Next]_vars => [\A a \in Account, i \in ProposalId : Leaves(a, i)]_vars
    <2> SUFFICES ASSUME GovernanceInv, Next, NEW a \in Account, NEW i \in ProposalId,
                        Owner[a] = i, tokens'[a] < tokens[a]
                 PROVE  /\ tokens[a] - tokens'[a] = Bond
                        /\ status[i] = "Passed" /\ status'[i] = "Executed"
                        /\ now > endsAt[i] + ExecutionDelay
      BY DEF vars
    <2> USE GovernanceAssumption
    <2>0. /\ TypeOK /\ tokens[a] \in Nat /\ now \in Nat /\ endsAt[i] \in Nat
          /\ executableAt[i] \in Nat /\ status \in [ProposalId -> ProposalStatus]
      BY DEF GovernanceInv, TypeOK
    <2>1. i \notin Voter
      OBVIOUS
    <2>2. ASSUME NEW v \in Voter, NEW amount \in Nat, Moved(v, amount) PROVE FALSE
      BY <2>0, <2>1, <2>2, MovedStep
    <2>3. ASSUME NEW v \in Voter, CreateProposal(v) PROVE FALSE
      <3>1. Moved(v, Bond) /\ Bond \in Nat
        BY <2>3 DEF CreateProposal, Moved
      <3> QED
        BY <2>2, <3>1
    <2>4. ASSUME NEW v \in Voter, NEW amount \in Amounts, Send(v, amount) PROVE FALSE
      <3>1. Moved(v, amount) /\ amount \in Nat
        BY <2>4 DEF Send, Moved
      <3> QED
        BY <2>2, <3>1
    <2>5. ASSUME UNCHANGED tokens PROVE FALSE
      BY <2>0, <2>5
    <2>6. ASSUME NEW v \in Voter, NEW k \in ProposalId, NEW c \in VoteChoice, CastVote(v, k, c)
          PROVE  FALSE
      BY <2>5, <2>6 DEF CastVote, Count
    <2>7. ASSUME NEW k \in ProposalId, FinalizeProposal(k) PROVE FALSE
      BY <2>5, <2>7 DEF FinalizeProposal
    <2>8. ASSUME Tick PROVE FALSE
      BY <2>5, <2>8 DEF Tick
    <2>9. ASSUME NEW k \in ProposalId, ExecuteProposal(k)
          PROVE  /\ tokens[a] - tokens'[a] = Bond
                 /\ status[i] = "Passed" /\ status'[i] = "Executed"
                 /\ now > endsAt[i] + ExecutionDelay
      <3>1. Moved(k, Bond) /\ Bond \in Nat
        BY <2>9 DEF ExecuteProposal, PayBondOf, Moved
      <3>2. k = i /\ tokens[a] - tokens'[a] = Bond
        BY <2>0, <3>1, MovedStep
      <3>3. status[i] = "Passed" /\ status'[i] = "Executed" /\ now >= executableAt[i]
        BY <2>0, <2>9, <3>2 DEF ExecuteProposal
      <3>4. executableAt[i] > endsAt[i] + ExecutionDelay
        BY <3>3 DEF GovernanceInv, TimelockSet
      <3> QED
        BY <2>0, <3>2, <3>3, <3>4
    <2> QED
      BY <2>3, <2>4, <2>6, <2>7, <2>8, <2>9 DEF Next
  <1> QED
    BY <1>1, Invariance, PTL DEF Spec, BondLeavesOnce

-----------------------------------------------------------------------------
(* The tokens. *)

\* What is in the accounts of one mint, wherever it is.
OfMint(m) == {a \in Account : Mint[a] = m}
TokensOf(m, t) == SumOver(t, OfMint(m))

\* Every step moves tokens and makes or destroys none.
LEMMA StepConserves ==
    ASSUME IsFiniteSet(Account), GovernanceInv, [Next]_vars, NEW m
    PROVE  TokensOf(m, tokens') = TokensOf(m, tokens)
  <1> USE GovernanceAssumption
  <1>1. ASSUME NEW o, NEW amount \in Nat, Moved(o, amount)
        PROVE  TokensOf(m, tokens') = TokensOf(m, tokens)
    <2>1. PICK from \in Account, to \in Account :
              /\ CanTransfer(tokens, Mint, from, to, amount)
              /\ tokens' = Transfer(tokens, from, to, amount)
      BY <1>1 DEF Moved
    <2>2. /\ tokens \in [Account -> Nat] /\ OfMint(m) \in SUBSET Account
          /\ tokens[from] >= amount /\ (from \in OfMint(m) <=> to \in OfMint(m))
      BY <2>1 DEF GovernanceInv, TypeOK, CanTransfer, OfMint
    <2>3. SumOver(Transfer(tokens, from, to, amount), OfMint(m)) = SumOver(tokens, OfMint(m))
      BY <2>2, TransferKeepsSum
    <2> QED
      BY <2>1, <2>3 DEF TokensOf
  <1>2. ASSUME NEW v \in Voter, CreateProposal(v)
        PROVE  TokensOf(m, tokens') = TokensOf(m, tokens)
    <2>1. Moved(v, Bond) /\ Bond \in Nat
      BY <1>2 DEF CreateProposal, Moved
    <2> QED
      BY <1>1, <2>1
  <1>3. ASSUME NEW i \in ProposalId, ExecuteProposal(i)
        PROVE  TokensOf(m, tokens') = TokensOf(m, tokens)
    <2>1. Moved(i, Bond) /\ Bond \in Nat
      BY <1>3 DEF ExecuteProposal, PayBondOf, Moved
    <2> QED
      BY <1>1, <2>1
  <1>4. ASSUME NEW v \in Voter, NEW amount \in Amounts, Send(v, amount)
        PROVE  TokensOf(m, tokens') = TokensOf(m, tokens)
    <2>1. Moved(v, amount) /\ amount \in Nat
      BY <1>4 DEF Send, Moved
    <2> QED
      BY <1>1, <2>1
  <1>5. ASSUME NEW v \in Voter, NEW i \in ProposalId, NEW c \in VoteChoice, CastVote(v, i, c)
        PROVE  UNCHANGED tokens
    BY <1>5 DEF CastVote, Count
  <1>6. ASSUME NEW i \in ProposalId, FinalizeProposal(i) PROVE UNCHANGED tokens
    BY <1>6 DEF FinalizeProposal
  <1>7. ASSUME Tick \/ UNCHANGED vars PROVE UNCHANGED tokens
    BY <1>7 DEF Tick, vars
  <1> QED
    BY <1>2, <1>3, <1>4, <1>5, <1>6, <1>7 DEF Next

\* Proposing, executing and sending tokens between votes in any order, through whatever
\* accounts (lib.rs): what there is of each mint is what there was at the start, so no
\* bond is paid back that was not paid in or in the account before.
THEOREM TokensAlwaysConserved ==
    ASSUME IsFiniteSet(Account), NEW m
    PROVE  Spec => [](TokensOf(m, tokens) = SumOver(InitialTokens, OfMint(m)))
  <1> DEFINE Conserved == TokensOf(m, tokens) = SumOver(InitialTokens, OfMint(m))
  <1>1. Init => Conserved
    BY DEF Init, TokensOf
  <1>2. GovernanceInv /\ Conserved /\ [Next]_vars => Conserved'
    BY StepConserves
  <1> QED
    BY <1>1, <1>2, Invariance, PTL DEF Spec
=============================================================================
