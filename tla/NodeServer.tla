------------------------------ MODULE NodeServer ------------------------------
(***************************************************************************)
(* Node servers (node/server.py) on the inference market, through the RPC   *)
(* client of node/blockchain.py.                                           *)
(*                                                                         *)
(* A poll puts the jobs it sees into a priority queue, once each; a worker  *)
(* takes the best paid one, claims it, runs the inference, uploads the      *)
(* result and submits it.  Every await lets the market and the other tasks  *)
(* move.  A transaction whose caller gave up, timed out or crashed may      *)
(* still be executed.  The wallets without a server act on the market       *)
(* directly, in any order.                                                 *)
(*                                                                         *)
(* An inference attempt raises or returns; the circuit breaker in front of  *)
(* it only makes it raise earlier (module CircuitBreaker).  JobCleaner      *)
(* removes nothing (the entries of _active_jobs have no deadline), and the  *)
(* auto_settle of the heartbeat is Heartbeat below.                        *)
(***************************************************************************)
EXTENDS InferenceMarket

CONSTANTS
    Server,      \* the wallets that a node server signs for
    Worker,      \* the worker tasks of each, max_concurrent_jobs many
    Visible,     \* the jobs whose accounts pass the filter of fetch_open_jobs
    MaxRetries,  \* _MAX_RETRIES
    MaxUploads,  \* _IPFS_CIRCUIT_BREAKER_THRESHOLD
    MaxHalts     \* bound: crashes and stops, those of a full queue not counted

\* Two entries of equal payment in the priority queue are compared when there is
\* no third one; MaxJobs is bounded for that reason.
ASSUME ServerAssumption ==
    /\ Server \subseteq Wallet
    /\ Visible \subseteq JobId
    /\ MaxRetries \in Nat
    /\ MaxUploads \in Nat \ {0}
    /\ MaxHalts \in Nat
    /\ MaxJobs <= 2

VARIABLES
    up,      \* the process runs
    active,  \* _active_jobs
    queue,   \* _job_queue: its jobs, which it hands out by payment
    work,    \* what each worker does
    late,    \* transactions that may yet be executed, though nobody waits for them
    halts    \* halts so far

server == <<up, active, queue, work, late, halts>>
nodeVars == <<vars, server>>

Idle == [phase |-> "idle", job |-> -1, attempt |-> 0]
Phase == {"claiming", "inferring", "uploading", "submitting"}
Doing(n, w, phase) == up[n] /\ work[n][w].phase = phase
Handled(n) == {work[n][w].job : w \in {v \in Worker : work[n][v] # Idle}}

-----------------------------------------------------------------------------
\* The names that end in _Bad are defective variants of the definition that
\* follows them; no specification uses them.  Each breaks one property below,
\* which shows that the property says something about the code.

NodeInit ==
    /\ Init
    /\ up = [n \in Server |-> TRUE]
    /\ active = [n \in Server |-> {}]
    /\ queue = [n \in Server |-> {}]
    /\ work = [n \in Server |-> [w \in Worker |-> Idle]]
    /\ late = {}
    /\ halts = 0

\* fetch_open_jobs: the filter compares byte 144, the length of the prompt's CID,
\* and not the status, so a job is seen in every state.
Fetched == {j \in Visible : job[j].status # Absent}

\* The poll finds something new.  It comes seconds after the one before, when no
\* worker is idle next to a job that waits.
Finds(n, new) ==
    /\ up[n]
    /\ new = Fetched \ active[n]
    /\ new # {}
    /\ queue[n] = {} \/ \A w \in Worker : work[n][w] # Idle

\* Entries of the queue that pay the same are compared by the jobs themselves,
\* which have no order: TypeError.
Ties(jobs) == \E i, j \in jobs : i # j /\ job[i].payment = job[j].payment

PollUnmarked_Bad(n) ==
    /\ up[n]
    /\ queue[n] = {}
    /\ ~Ties(Fetched)
    /\ active' = [active EXCEPT ![n] = @ \union Fetched]
    /\ queue' = [queue EXCEPT ![n] = Fetched]
    /\ UNCHANGED <<vars, up, work, late, halts>>

\* One turn of _job_loop: every job it has not seen is marked and queued.
Poll(n) ==
    \E new \in {Fetched \ active[n]} :
        /\ Finds(n, new)
        /\ ~Ties(queue[n] \union new)
        /\ active' = [active EXCEPT ![n] = @ \union new]
        /\ queue' = [queue EXCEPT ![n] = @ \union new]
        /\ UNCHANGED <<vars, up, work, late, halts>>

\* The process ends: its tasks and tables are gone, its transactions may not be.
GoDown(n) ==
    LET sent(op, phase) == {<<op, n, work[n][w].job>> : w \in {v \in Worker : Doing(n, v, phase)}}
    IN /\ up[n]
       /\ up' = [up EXCEPT ![n] = FALSE]
       /\ active' = [active EXCEPT ![n] = {}]
       /\ queue' = [queue EXCEPT ![n] = {}]
       /\ work' = [work EXCEPT ![n] = [w \in Worker |-> Idle]]
       /\ late' = (late \union sent("claim", "claiming")) \union sent("submit", "submitting")
       /\ UNCHANGED vars

\* The TypeError leaves _job_loop, and start cancels the workers and returns.
PollTies(n) ==
    \E new \in {Fetched \ active[n]} :
        /\ Finds(n, new)
        /\ Ties(queue[n] \union new)
        /\ GoDown(n)
        /\ UNCHANGED halts

\* A crash, or stop, which cancels the workers wherever they wait.
Halt(n) == halts < MaxHalts /\ halts' = halts + 1 /\ GoDown(n)

\* The container is restarted: a new process, with empty tables.
Restart(n) ==
    /\ ~up[n]
    /\ up' = [up EXCEPT ![n] = TRUE]
    /\ UNCHANGED <<vars, active, queue, work, late, halts>>

-----------------------------------------------------------------------------
(* _job_worker and _handle_job. *)

\* get, and the check that the deadline has not passed.
Take(n, w) ==
    /\ Doing(n, w, "idle")
    /\ \E j \in queue[n] :
          /\ \A i \in queue[n] : job[i].payment <= job[j].payment
          /\ queue' = [queue EXCEPT ![n] = @ \ {j}]
          /\ IF now >= job[j].deadline
             THEN active' = [active EXCEPT ![n] = @ \ {j}] /\ UNCHANGED work
             ELSE /\ work' = [work EXCEPT ![n][w] = [phase |-> "claiming", job |-> j, attempt |-> 0]]
                  /\ UNCHANGED active
    /\ UNCHANGED <<vars, up, late, halts>>

\* _handle_job has returned: the finally clause of _job_worker.
Release(n, w) ==
    /\ work' = [work EXCEPT ![n][w] = Idle]
    /\ active' = [active EXCEPT ![n] = @ \ {work[n][w].job}]
    /\ UNCHANGED <<up, queue, halts>>

GoOn(n, w, phase) ==
    /\ work' = [work EXCEPT ![n][w].phase = phase]
    /\ UNCHANGED <<up, active, queue, late, halts>>

\* claim_job is executed and confirmed.
Claim(n, w) ==
    /\ Doing(n, w, "claiming")
    /\ ClaimJob(n, work[n][w].job)
    /\ GoOn(n, w, "inferring")

ClaimIgnored_Bad(n, w) ==
    /\ Doing(n, w, "claiming")
    /\ GoOn(n, w, "inferring")
    /\ UNCHANGED vars

\* claim_job is refused or lost; or it is only late, and its caller gives up.
ClaimFails(n, w) ==
    /\ Doing(n, w, "claiming")
    /\ Release(n, w)
    /\ late' \in {late, late \union {<<"claim", n, work[n][w].job>>}}
    /\ UNCHANGED vars

\* An attempt of _run_inference raises, and it was not the last.
Retry(n, w) ==
    /\ Doing(n, w, "inferring")
    /\ work[n][w].attempt < MaxRetries
    /\ work' = [work EXCEPT ![n][w].attempt = @ + 1]
    /\ UNCHANGED <<vars, up, active, queue, late, halts>>

Infer(n, w) ==
    /\ Doing(n, w, "inferring")
    /\ work' = [work EXCEPT ![n][w].phase = "uploading", ![n][w].attempt = 0]
    /\ UNCHANGED <<vars, up, active, queue, late, halts>>

\* _upload_result: the storage raises, and is tried again at once.
UploadRaises(n, w) ==
    /\ Doing(n, w, "uploading")
    /\ work[n][w].attempt + 1 < MaxUploads
    /\ work' = [work EXCEPT ![n][w].attempt = @ + 1]
    /\ UNCHANGED <<vars, up, active, queue, late, halts>>

\* The upload ends before the deadline, and the result passes verification.  A result
\* that no attempt stored, or for which there is no storage, is named by its hash.
Upload(n, w) ==
    /\ Doing(n, w, "uploading")
    /\ now < job[work[n][w].job].deadline
    /\ GoOn(n, w, "submitting")
    /\ UNCHANGED vars

\* The prompt fails its check, the last attempt raises, the upload is cut off by
\* the deadline, or the result fails verification: the claim stays as it is.
Abandon(n, w) ==
    /\ Doing(n, w, "inferring") \/ Doing(n, w, "uploading")
    /\ Release(n, w)
    /\ UNCHANGED <<vars, late>>

Submit(n, w) ==
    /\ Doing(n, w, "submitting")
    /\ SubmitResult(n, work[n][w].job)
    /\ Release(n, w)
    /\ UNCHANGED late

\* submit_result fails and its return value is ignored; it may only be late.
SubmitFails(n, w) ==
    /\ Doing(n, w, "submitting")
    /\ Release(n, w)
    /\ late' \in {late, late \union {<<"submit", n, work[n][w].job>>}}
    /\ UNCHANGED vars

\* A transaction is executed after its sender stopped waiting for it.
Late(n, j) ==
    /\ \/ <<"claim", n, j>> \in late /\ ClaimJob(n, j) /\ late' = late \ {<<"claim", n, j>>}
       \/ <<"submit", n, j>> \in late /\ SubmitResult(n, j) /\ late' = late \ {<<"submit", n, j>>}
    /\ UNCHANGED <<up, active, queue, work, halts>>

-----------------------------------------------------------------------------
\* The rest of the market: clients, wallets without a server, anybody, the clock.
Market ==
    /\ \/ \E c \in Wallet, p \in Payments, d \in Deadlines : PostJob(c, p, d)
       \/ \E n \in Wallet \ Server, j \in JobId : ClaimJob(n, j) \/ SubmitResult(n, j)
       \/ \E c \in Wallet, j \in JobId : AcceptResult(c, j) \/ DisputeResult(c, j)
       \/ \E j \in JobId : AutoSettle(j) \/ RefundExpired(j)
       \/ Tick
    /\ UNCHANGED server

WorkerStep(n, w) ==
    \/ Take(n, w) \/ Claim(n, w) \/ ClaimFails(n, w)
    \/ Retry(n, w) \/ Infer(n, w) \/ UploadRaises(n, w) \/ Upload(n, w) \/ Abandon(n, w)
    \/ Submit(n, w) \/ SubmitFails(n, w)

NodeNext ==
    \/ Market
    \/ \E n \in Server : Poll(n) \/ PollTies(n) \/ Halt(n) \/ Restart(n)
    \/ \E n \in Server, w \in Worker : WorkerStep(n, w)
    \/ \E n \in Server, j \in JobId : Late(n, j)

NodeSpec == NodeInit /\ [][NodeNext]_nodeVars

\* The cluster's clock advances.
ClockRuns == WF_nodeVars(Tick /\ UNCHANGED server)

\* Somebody settles what can be settled: auto_settle is open to anyone.
KeptSpec ==
    /\ NodeSpec
    /\ ClockRuns
    /\ \A j \in JobId : WF_nodeVars(AutoSettle(j) /\ UNCHANGED server)

\* The accounts auto_settle needs, and those the heartbeat loop passes.
SettleAccounts == {"job", "escrow_token_account", "node_token_account",
                   "treasury_token_account", "token_program"}
HeartbeatAccounts == {"job"}

\* _heartbeat_loop: auto_settle_expired_jobs for a job past its window.
Heartbeat(n, j) ==
    /\ up[n]
    /\ now > job[j].claimedAt + ChallengeWindow
    /\ SettleAccounts \subseteq HeartbeatAccounts
    /\ AutoSettle(j)
    /\ UNCHANGED server

\* Nobody settles but the heartbeat loops of the servers.
UnkeptSpec ==
    /\ NodeSpec
    /\ ClockRuns
    /\ \A n \in Server, j \in JobId : WF_nodeVars(Heartbeat(n, j))

-----------------------------------------------------------------------------
(* Properties. *)

\* The table of active jobs does its work: it holds just the jobs that are
\* queued or handled, and a server never has the same job twice, not in the
\* queue while a worker has it and not with two workers, although each poll
\* returns every job again.
HandledOnce ==
    \A n \in Server :
        /\ active[n] = queue[n] \union Handled(n)
        /\ queue[n] \intersect Handled(n) = {}
        /\ \A w, v \in Worker :
              work[n][w] # Idle /\ work[n][v] # Idle /\ w # v => work[n][w].job # work[n][v].job

Abandoned(j) ==
    /\ job[j].status = "InProgress"
    /\ job[j].node \in Server
    /\ <<"submit", job[j].node, j>> \notin late
    /\ \A w \in Worker :
          work[job[j].node][w].job = j => work[job[j].node][w].phase = "claiming"

\* A claim outlives its worker for good: when the worker that made it gave up,
\* lost the answer or died, no poll, restart, second worker or instruction of
\* the market ever moves the job again.
AbandonedForGood ==
    [][\A j \in JobId : Abandoned(j) => Abandoned(j)']_nodeVars

=============================================================================
