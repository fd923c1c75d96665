------------------------------- MODULE Settlement -------------------------------
(***************************************************************************)
(* A node's money: payments batched for settlement on the chain               *)
(* (node/settlement.py) and the earnings of a rolling window                  *)
(* (node/earnings.py).  Nothing in the repository drives the two trackers but  *)
(* their tests, so every order of calls is allowed.  The wall clock does not    *)
(* go back.                                                                  *)
(***************************************************************************)
EXTENDS Integers, SequencesExt, FiniteSetsExt

CONSTANTS
    Job,
    Lamports,     \* [job -> amount_lamports]
    EarningsWindow  \* window_seconds, in ticks

ASSUME SettlementAssumption == Lamports \in [Job -> Nat] /\ EarningsWindow \in Nat

VARIABLES
    pending,      \* _pending
    batches,      \* _batches in the order of their ids: records and status
    paid,         \* history: the jobs whose payments were recorded
    records,      \* _records of the earnings: job and age
    lifetime,     \* _total_lamports and _total_jobs
    earned        \* history: [job -> its age], for the jobs whose earnings were recorded

settlementVars == <<pending, batches, paid, records, lifetime, earned>>
trackerVars == <<pending, batches, paid>>
earningsVars == <<records, lifetime, earned>>

SettlementInit ==
    /\ pending = <<>> /\ batches = <<>> /\ paid = {}
    /\ records = <<>> /\ lifetime = [lamports |-> 0, jobs |-> 0]
    /\ earned = [j \in {} |-> 0]

\* The lamports of a set of jobs, of a list of records of them (total_lamports and
\* pending_lamports), and of a part of the batches.
Total(jobs) == MapThenSumSet(LAMBDA j : Lamports[j], jobs)

Amount(jobs) ==
    LET share == [i \in DOMAIN jobs |-> Lamports[jobs[i]]]
    IN MapThenSumSet(LAMBDA i : share[i], DOMAIN share)

Worth(of) ==
    LET worth == [i \in DOMAIN batches |-> Amount(batches[i].records)]
    IN MapThenSumSet(LAMBDA i : worth[i], of)

RecordPayment(j) ==
    /\ j \notin paid
    /\ pending' = Append(pending, j)
    /\ paid' = paid \union {j}
    /\ UNCHANGED <<batches, earningsVars>>

\* A defective variant of the next definition, which no specification uses.
FlushAliased_Bad ==
    /\ pending # <<>>
    /\ batches' = Append(batches, [records |-> <<>>, status |-> "pending"])
    /\ pending' = <<>>
    /\ UNCHANGED <<paid, earningsVars>>

\* flush, which does not itself ask should_flush: what is pending becomes a batch.
Flush ==
    /\ pending # <<>>
    /\ batches' = Append(batches, [records |-> pending, status |-> "pending"])
    /\ pending' = <<>>
    /\ UNCHANGED <<paid, earningsVars>>

\* confirm and fail take a batch in any state.
Answered(i, status) ==
    /\ batches' = [batches EXCEPT ![i].status = status]
    /\ UNCHANGED <<pending, paid, earningsVars>>

ConfirmBatch(i) == Answered(i, "confirmed")
FailBatch(i) == Answered(i, "failed")

\* batches_by_status and the total of one status.
Settled(status) == Worth({i \in DOMAIN batches : batches[i].status = status})

RecordEarning(j) ==
    /\ j \notin DOMAIN earned
    /\ records' = Append(records, [job |-> j, age |-> 0])
    /\ lifetime' = [lamports |-> lifetime.lamports + Lamports[j], jobs |-> lifetime.jobs + 1]
    /\ earned' = [k \in DOMAIN earned \union {j} |-> IF k = j THEN 0 ELSE earned[k]]
    /\ UNCHANGED trackerVars

\* _prune stops at the first record that is young enough.
Pruned(q) ==
    LET young == {i \in DOMAIN q : q[i].age <= EarningsWindow}
    IN IF young = {} THEN <<>> ELSE SubSeq(q, Min(young), Len(q))

\* window_summary prunes and adds up what is left.
WindowSummary(q) ==
    [jobs |-> Len(q), lamports |-> Amount([i \in DOMAIN q |-> q[i].job])]

\* window_summary and recent_jobs write back what they pruned.
ReadWindow ==
    /\ records' = Pruned(records)
    /\ UNCHANGED <<lifetime, earned, trackerVars>>

Aged(age) == IF age > EarningsWindow THEN age ELSE age + 1

EarningsTick ==
    /\ records' = [i \in DOMAIN records |-> [records[i] EXCEPT !.age = Aged(@)]]
    /\ earned' = [j \in DOMAIN earned |-> Aged(earned[j])]
    /\ UNCHANGED <<lifetime, trackerVars>>

SettlementNext ==
    \/ \E j \in Job : RecordPayment(j) \/ RecordEarning(j)
    \/ Flush \/ ReadWindow \/ EarningsTick
    \/ \E i \in DOMAIN batches : ConfirmBatch(i) \/ FailBatch(i)

SettlementSpec == SettlementInit /\ [][SettlementNext]_settlementVars
-----------------------------------------------------------------------------
(* Properties. *)

\* No lamport is lost and none is counted twice: what was recorded is pending or in
\* a batch of some status, a window's summary holds exactly the jobs that are young
\* enough, and the lifetime totals hold them all.
MoneyIsAccounted ==
    LET young == {j \in DOMAIN earned : earned[j] <= EarningsWindow}
    IN /\ Total(paid) = Amount(pending) + Settled("pending") + Settled("confirmed") + Settled("failed")
       /\ \A i, k \in DOMAIN batches :
             i # k => ToSet(batches[i].records) \intersect ToSet(batches[k].records) = {}
       /\ WindowSummary(Pruned(records)) = [jobs |-> Cardinality(young), lamports |-> Total(young)]
       /\ lifetime = [jobs |-> Cardinality(DOMAIN earned), lamports |-> Total(DOMAIN earned)]
=============================================================================
