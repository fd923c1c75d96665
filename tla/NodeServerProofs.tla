--------------------------- MODULE NodeServerProofs ---------------------------
(***************************************************************************)
(* Proofs about node servers on the inference market, for any number of      *)
(* servers, workers, jobs, retries and halts.                               *)
(*                                                                         *)
(* NodeInv is inductive: a job leaves the queue in the step in which a       *)
(* worker gets it, and the table of active jobs in the one in which its       *)
(* worker forgets it, so each table is the other two put together.  With the   *)
(* types of the work table every step of a server is one of the market or     *)
(* leaves the market alone, and all that is proved of the market is true of   *)
(* the servers.                                                            *)
(***************************************************************************)
EXTENDS NodeServer, InferenceMarketProofs

WorkEntry == {Idle} \union [phase : Phase, job : JobId, attempt : Nat]

NodeTypes ==
    /\ up \in [Server -> BOOLEAN]
    /\ active \in [Server -> SUBSET JobId]
    /\ queue \in [Server -> SUBSET JobId]
    /\ work \in [Server -> [Worker -> WorkEntry]]

\* A process that ended has left nothing behind.
DownIsEmpty ==
    \A n \in Server :
        ~ up[n] => /\ active[n] = {} /\ queue[n] = {}
                   /\ \A w \in Worker : work[n][w] = Idle

NodeInv == NodeTypes /\ DownIsEmpty /\ HandledOnce

-----------------------------------------------------------------------------
(* The three tables of one server, as values: a the active jobs, q the queued  *)
(* ones and k what the workers do.                                           *)

Table == [Worker -> WorkEntry]
Jobs(k) == {k[w].job : w \in {v \in Worker : k[v] # Idle}}

Orderly(a, q, k) ==
    /\ a = q \union Jobs(k)
    /\ q \intersect Jobs(k) = {}
    /\ \A w, v \in Worker : k[w] # Idle /\ k[v] # Idle /\ w # v => k[w].job # k[v].job

\* What a worker does is about a job, unless it is idle.
LEMMA EntryIsBusy ==
    ASSUME NEW e \in WorkEntry
    PROVE  /\ e # Idle => e.job \in JobId /\ e.phase \in Phase /\ e.attempt \in Nat
           /\ e = Idle => e.job = -1 /\ e.phase = "idle" /\ e.job \notin JobId
           /\ e.phase \in Phase => e # Idle
BY MarketAssumption DEF WorkEntry, Idle, Phase, JobId

\* A job nobody has is queued.
LEMMA QueueOrderly ==
    ASSUME NEW a, NEW q, NEW k \in Table, NEW new, Orderly(a, q, k), new \intersect a = {}
    PROVE  Orderly(a \union new, q \union new, k)
BY DEF Orderly

\* A queued job is dropped.
LEMMA DropOrderly ==
    ASSUME NEW a, NEW q, NEW k \in Table, NEW j \in q, Orderly(a, q, k)
    PROVE  Orderly(a \ {j}, q \ {j}, k)
BY DEF Orderly

\* A queued job goes to an idle worker.
LEMMA TakeOrderly ==
    ASSUME NEW a, NEW q, NEW k \in Table, NEW j \in q, NEW w \in Worker, NEW e \in WorkEntry,
           Orderly(a, q, k), k[w] = Idle, e # Idle, e.job = j
    PROVE  Orderly(a, q \ {j}, [k EXCEPT ![w] = e])
<1> DEFINE l == [k EXCEPT ![w] = e]
<1>1. \A v \in Worker : l[v] = IF v = w THEN e ELSE k[v]
    BY DEF Table
<1>2. Jobs(l) = Jobs(k) \union {j}
    BY <1>1 DEF Jobs
<1>3. \A v \in Worker : k[v] # Idle => k[v].job \in Jobs(k)
    BY DEF Jobs
<1> HIDE DEF l
<1>4. \A v \in Worker : k[v] # Idle => k[v].job # j
    BY <1>3 DEF Orderly
<1>5. a = (q \ {j}) \union Jobs(l) /\ (q \ {j}) \intersect Jobs(l) = {}
    BY <1>2 DEF Orderly
<1>6. ASSUME NEW x \in Worker, NEW y \in Worker, l[x] # Idle, l[y] # Idle, x # y
      PROVE  l[x].job # l[y].job
    <2>1. CASE x # w /\ y # w
        BY <1>1, <1>6, <2>1 DEF Orderly
    <2>2. CASE x = w
        BY <1>1, <1>4, <1>6, <2>2
    <2>3. CASE y = w
        BY <1>1, <1>4, <1>6, <2>3
    <2> QED BY <2>1, <2>2, <2>3
<1>7. Orderly(a, q \ {j}, l)
    BY <1>5, <1>6 DEF Orderly
<1> QED BY <1>7 DEF l

\* A worker forgets its job.
LEMMA ReleaseOrderly ==
    ASSUME NEW a, NEW q, NEW k \in Table, NEW w \in Worker, Orderly(a, q, k), k[w] # Idle
    PROVE  Orderly(a \ {k[w].job}, q, [k EXCEPT ![w] = Idle])
<1> DEFINE l == [k EXCEPT ![w] = Idle]
<1>1. \A v \in Worker : l[v] = IF v = w THEN Idle ELSE k[v]
    BY DEF Table
<1>2. k[w].job \in Jobs(k)
    BY DEF Jobs
<1>3. Jobs(l) = Jobs(k) \ {k[w].job}
    BY <1>1 DEF Jobs, Orderly
<1> HIDE DEF l
<1> QED BY <1>1, <1>2, <1>3 DEF Orderly, l

\* A worker goes on with its job.
LEMMA GoOnOrderly ==
    ASSUME NEW a, NEW q, NEW k \in Table, NEW w \in Worker, NEW e \in WorkEntry,
           Orderly(a, q, k), k[w] # Idle, e # Idle, e.job = k[w].job
    PROVE  Orderly(a, q, [k EXCEPT ![w] = e])
<1> DEFINE l == [k EXCEPT ![w] = e]
<1>1. \A v \in Worker : l[v] = IF v = w THEN e ELSE k[v]
    BY DEF Table
<1>2. Jobs(l) = Jobs(k)
    BY <1>1 DEF Jobs
<1> HIDE DEF l
<1>3. \A v \in Worker : /\ l[v] # Idle <=> k[v] # Idle
                         /\ l[v].job = k[v].job
    BY <1>1
<1>4. Orderly(a, q, l)
    BY <1>2, <1>3 DEF Orderly
<1> QED BY <1>4 DEF l

\* Empty tables are orderly.
LEMMA EmptyOrderly == Orderly({}, {}, [w \in Worker |-> Idle])
BY DEF Orderly, Jobs

\* HandledOnce says that the tables of every server are orderly.
LEMMA HandledIsOrderly ==
    HandledOnce <=> \A n \in Server : Orderly(active[n], queue[n], work[n])
BY DEF HandledOnce, Handled, Orderly, Jobs

-----------------------------------------------------------------------------
(* The steps. *)

\* A step of one server that leaves its tables well typed and orderly, and empty if
\* its process ended, keeps the invariant.
LEMMA ServerStep ==
    ASSUME NodeInv, NEW n \in Server, NEW u \in BOOLEAN,
           NEW a \in SUBSET JobId, NEW q \in SUBSET JobId, NEW k \in Table,
           Orderly(a, q, k), u \/ (a = {} /\ q = {} /\ \A w \in Worker : k[w] = Idle),
           up' = [up EXCEPT ![n] = u], active' = [active EXCEPT ![n] = a],
           queue' = [queue EXCEPT ![n] = q], work' = [work EXCEPT ![n] = k]
    PROVE  NodeInv'
<1>1. NodeTypes'
    BY DEF NodeInv, NodeTypes, Table
<1>2. \A m \in Server : /\ up'[m] = IF m = n THEN u ELSE up[m]
                        /\ active'[m] = IF m = n THEN a ELSE active[m]
                        /\ queue'[m] = IF m = n THEN q ELSE queue[m]
                        /\ work'[m] = IF m = n THEN k ELSE work[m]
    BY DEF NodeInv, NodeTypes
<1>3. DownIsEmpty'
    BY <1>2 DEF NodeInv, DownIsEmpty
<1>4. HandledOnce'
    <2>1. \A m \in Server : Orderly(active[m], queue[m], work[m])
        BY HandledIsOrderly DEF NodeInv
    <2>2. \A m \in Server : Orderly(active'[m], queue'[m], work'[m])
        BY <1>2, <2>1
    <2> QED BY <2>2 DEF HandledOnce, Handled, Orderly, Jobs
<1> QED BY <1>1, <1>3, <1>4 DEF NodeInv

\* The tables of one server before a step.
LEMMA ServerBefore ==
    ASSUME NodeInv, NEW n \in Server
    PROVE  /\ Orderly(active[n], queue[n], work[n])
           /\ work[n] \in Table /\ active[n] \in SUBSET JobId /\ queue[n] \in SUBSET JobId
           /\ up[n] \in BOOLEAN
           /\ up = [up EXCEPT ![n] = up[n]] /\ active = [active EXCEPT ![n] = active[n]]
           /\ queue = [queue EXCEPT ![n] = queue[n]] /\ work = [work EXCEPT ![n] = work[n]]
<1>1. Orderly(active[n], queue[n], work[n])
    BY HandledIsOrderly DEF NodeInv
<1> QED BY <1>1 DEF NodeInv, NodeTypes, Table

\* The poll marks and queues jobs that are not active.
LEMMA PollKeepsInv ==
    ASSUME NodeInv, NEW n \in Server, Poll(n)
    PROVE  NodeInv'
<1>1. PICK new : /\ new = Fetched \ active[n] /\ up[n]
                 /\ active' = [active EXCEPT ![n] = active[n] \union new]
                 /\ queue' = [queue EXCEPT ![n] = queue[n] \union new]
                 /\ UNCHANGED <<up, work>>
    BY DEF Poll, Finds
<1>2. new \in SUBSET JobId /\ new \intersect active[n] = {}
    BY <1>1, ServerAssumption DEF Fetched
<1>3. Orderly(active[n] \union new, queue[n] \union new, work[n])
    BY <1>2, ServerBefore, QueueOrderly
<1>4. active[n] \union new \in SUBSET JobId /\ queue[n] \union new \in SUBSET JobId
    BY <1>2, ServerBefore
<1>5. /\ up' = [up EXCEPT ![n] = TRUE] /\ work' = [work EXCEPT ![n] = work[n]]
      /\ work[n] \in Table
    BY <1>1, ServerBefore
<1> QED BY <1>1, <1>3, <1>4, <1>5, ServerStep

\* The end of a process empties its tables, and a restart finds them empty.
LEMMA DownKeepsInv ==
    ASSUME NodeInv, NEW n \in Server, GoDown(n) \/ Restart(n)
    PROVE  NodeInv'
<1>1. CASE GoDown(n)
    <2> DEFINE k == [w \in Worker |-> Idle]
    <2>1. k \in Table /\ \A w \in Worker : k[w] = Idle
        BY DEF Table, WorkEntry
    <2>2. /\ up' = [up EXCEPT ![n] = FALSE] /\ active' = [active EXCEPT ![n] = {}]
          /\ queue' = [queue EXCEPT ![n] = {}] /\ work' = [work EXCEPT ![n] = k]
        BY <1>1 DEF GoDown
    <2>3. Orderly({}, {}, k)
        BY EmptyOrderly
    <2> HIDE DEF k
    <2> QED BY <2>1, <2>2, <2>3, ServerStep
<1>2. CASE Restart(n)
    <2>1. /\ up' = [up EXCEPT ![n] = TRUE] /\ active' = [active EXCEPT ![n] = active[n]]
          /\ queue' = [queue EXCEPT ![n] = queue[n]] /\ work' = [work EXCEPT ![n] = work[n]]
        BY <1>2, ServerBefore DEF Restart
    <2>2. /\ active[n] \in SUBSET JobId /\ queue[n] \in SUBSET JobId /\ work[n] \in Table
          /\ Orderly(active[n], queue[n], work[n])
        BY ServerBefore
    <2> QED BY <2>1, <2>2, ServerStep
<1> QED BY <1>1, <1>2

\* A worker gets a job that is then no longer queued, or drops it.
LEMMA TakeKeepsInv ==
    ASSUME NodeInv, NEW n \in Server, NEW w \in Worker, Take(n, w)
    PROVE  NodeInv'
<1> DEFINE e(j) == [phase |-> "claiming", job |-> j, attempt |-> 0]
<1>1. PICK j \in queue[n] :
          /\ queue' = [queue EXCEPT ![n] = queue[n] \ {j}]
          /\ \/ active' = [active EXCEPT ![n] = active[n] \ {j}] /\ UNCHANGED work
             \/ work' = [work EXCEPT ![n][w] = e(j)] /\ UNCHANGED active
          /\ up' = up /\ up[n] /\ work[n][w].phase = "idle"
    BY DEF Take, Doing
<1>2. j \in JobId /\ e(j) \in WorkEntry /\ e(j).job = j /\ e(j) # Idle
    BY ServerBefore DEF WorkEntry, Phase, Idle
<1>3. work[n][w] = Idle
    BY <1>1, ServerBefore, EntryIsBusy DEF Table, Phase
<1>4. up' = [up EXCEPT ![n] = TRUE] /\ queue[n] \ {j} \in SUBSET JobId
    BY <1>1, ServerBefore
<1>5. CASE active' = [active EXCEPT ![n] = active[n] \ {j}] /\ UNCHANGED work
    <2>1. Orderly(active[n] \ {j}, queue[n] \ {j}, work[n])
        BY ServerBefore, DropOrderly
    <2>2. active[n] \ {j} \in SUBSET JobId
        BY ServerBefore
    <2> QED BY <1>1, <1>4, <1>5, <2>1, <2>2, ServerBefore, ServerStep
<1>6. CASE work' = [work EXCEPT ![n][w] = e(j)] /\ UNCHANGED active
    <2> DEFINE k == [work[n] EXCEPT ![w] = e(j)]
    <2>1. k \in Table /\ work' = [work EXCEPT ![n] = k]
        BY <1>2, <1>6, ServerBefore DEF Table, NodeInv, NodeTypes
    <2>2. Orderly(active[n], queue[n] \ {j}, k)
        BY <1>2, <1>3, ServerBefore, TakeOrderly
    <2> HIDE DEF k
    <2> QED BY ZenonT(40), <1>1, <1>4, <1>6, <2>1, <2>2, ServerBefore, ServerStep
<1> QED BY <1>1, <1>5, <1>6

\* A busy worker forgets its job.
LEMMA ReleaseKeepsInv ==
    ASSUME NodeInv, NEW n \in Server, NEW w \in Worker,
           up[n], work[n][w].phase \in Phase, Release(n, w)
    PROVE  NodeInv'
<1> DEFINE k == [work[n] EXCEPT ![w] = Idle]
           a == active[n] \ {work[n][w].job}
<1>1. work[n][w] # Idle
    BY ServerBefore, EntryIsBusy DEF Table
<1>2. Orderly(a, queue[n], k)
    BY <1>1, ServerBefore, ReleaseOrderly
<1>3. k \in Table /\ a \in SUBSET JobId
    BY ServerBefore DEF Table, WorkEntry
<1>4. /\ work' = [work EXCEPT ![n] = k] /\ active' = [active EXCEPT ![n] = a]
      /\ UNCHANGED <<up, queue>>
    BY DEF Release, NodeInv, NodeTypes
<1> HIDE DEF k, a
<1> QED BY <1>2, <1>3, <1>4, ServerBefore, ServerStep

\* A busy worker goes on with the same job.
LEMMA GoOnKeepsInv ==
    ASSUME NodeInv, NEW n \in Server, NEW w \in Worker, NEW e \in WorkEntry,
           up[n], work[n][w].phase \in Phase, e.phase \in Phase, e.job = work[n][w].job,
           work' = [work EXCEPT ![n][w] = e], UNCHANGED <<up, active, queue>>
    PROVE  NodeInv'
<1> DEFINE k == [work[n] EXCEPT ![w] = e]
<1>1. work[n][w] # Idle /\ e # Idle
    BY ServerBefore, EntryIsBusy DEF Table
<1>2. Orderly(active[n], queue[n], k)
    BY <1>1, ServerBefore, GoOnOrderly
<1>3. k \in Table
    BY ServerBefore DEF Table
<1>4. /\ work' = [work EXCEPT ![n] = k] /\ up' = [up EXCEPT ![n] = TRUE]
      /\ active' = [active EXCEPT ![n] = active[n]] /\ queue' = [queue EXCEPT ![n] = queue[n]]
    BY ServerBefore DEF NodeInv, NodeTypes
<1>5. active[n] \in SUBSET JobId /\ queue[n] \in SUBSET JobId
    BY ServerBefore
<1> HIDE DEF k
<1> QED BY <1>2, <1>3, <1>4, <1>5, ServerStep

\* The steps of a busy worker.
LEMMA BusyKeepsInv ==
    ASSUME NodeInv, NEW n \in Server, NEW w \in Worker, WorkerStep(n, w), ~ Take(n, w)
    PROVE  NodeInv'
<1> DEFINE e == work[n][w]
<1>0. work[n] \in Table /\ e \in WorkEntry
    BY ServerBefore DEF Table
<1>1. up[n] /\ e.phase \in Phase
    BY DEF WorkerStep, Claim, ClaimFails, Retry, Infer, UploadRaises, Upload, Abandon, Submit,
           SubmitFails, Doing, Phase
<1>2. e \in [phase : Phase, job : JobId, attempt : Nat]
    BY <1>0, <1>1 DEF WorkEntry, Idle, Phase
<1>3. CASE Claim(n, w) \/ Upload(n, w)
    <2>1. PICK p \in Phase : GoOn(n, w, p)
        BY <1>3 DEF Claim, Upload, Phase
    <2>2. [e EXCEPT !.phase = p] \in WorkEntry /\ work' = [work EXCEPT ![n][w] = [e EXCEPT !.phase = p]]
        BY <1>2, <2>1 DEF WorkEntry, GoOn, NodeInv, NodeTypes
    <2>3. [e EXCEPT !.phase = p].phase \in Phase /\ [e EXCEPT !.phase = p].job = e.job
        BY <1>2
    <2> QED BY <1>1, <2>1, <2>2, <2>3, GoOnKeepsInv DEF GoOn
<1>4. CASE ClaimFails(n, w) \/ Abandon(n, w) \/ Submit(n, w) \/ SubmitFails(n, w)
    BY <1>1, <1>4, ReleaseKeepsInv DEF ClaimFails, Abandon, Submit, SubmitFails
<1>5. CASE Retry(n, w) \/ UploadRaises(n, w)
    <2>1. [e EXCEPT !.attempt = @ + 1] \in WorkEntry /\ [e EXCEPT !.attempt = @ + 1].phase \in Phase
          /\ [e EXCEPT !.attempt = @ + 1].job = e.job
        BY <1>2 DEF WorkEntry
    <2>2. /\ work' = [work EXCEPT ![n][w] = [e EXCEPT !.attempt = @ + 1]]
          /\ UNCHANGED <<up, active, queue>>
        BY <1>5 DEF Retry, UploadRaises, NodeInv, NodeTypes
    <2> QED BY <1>1, <2>1, <2>2, GoOnKeepsInv
<1>6. CASE Infer(n, w)
    <2> DEFINE f == [e EXCEPT !.phase = "uploading", !.attempt = 0]
    <2>1. f \in WorkEntry /\ f.phase \in Phase /\ f.job = e.job
        BY <1>2 DEF WorkEntry, Phase
    <2>2. work' = [work EXCEPT ![n][w] = f] /\ UNCHANGED <<up, active, queue>>
        BY <1>6 DEF Infer, NodeInv, NodeTypes
    <2> QED BY <1>1, <2>1, <2>2, GoOnKeepsInv
<1> QED BY <1>3, <1>4, <1>5, <1>6 DEF WorkerStep

\* Servers start with empty tables, and every step keeps the invariant.
LEMMA NodeInitInv == NodeInit => NodeInv
<1> SUFFICES ASSUME NodeInit PROVE NodeInv
    OBVIOUS
<1>1. NodeTypes
    BY DEF NodeInit, NodeTypes, WorkEntry
<1>2. DownIsEmpty
    BY DEF NodeInit, DownIsEmpty
<1>3. HandledOnce
    BY EmptyOrderly, HandledIsOrderly DEF NodeInit
<1> QED BY <1>1, <1>2, <1>3 DEF NodeInv

LEMMA NodeStepInv == NodeInv /\ [NodeNext]_nodeVars => NodeInv'
<1> SUFFICES ASSUME NodeInv, [NodeNext]_nodeVars PROVE NodeInv'
    OBVIOUS
<1>1. ASSUME UNCHANGED <<up, active, queue, work>> PROVE NodeInv'
    BY <1>1 DEF NodeInv, NodeTypes, DownIsEmpty, HandledOnce, Handled
<1>2. CASE UNCHANGED nodeVars
    BY <1>1, <1>2 DEF nodeVars, server
<1>3. CASE Market
    BY <1>1, <1>3 DEF Market, server
<1>4. ASSUME NEW n \in Server, Poll(n) \/ PollTies(n) \/ Halt(n) \/ Restart(n) PROVE NodeInv'
    BY <1>4, PollKeepsInv, DownKeepsInv DEF PollTies, Halt
<1>5. ASSUME NEW n \in Server, NEW w \in Worker, WorkerStep(n, w) PROVE NodeInv'
    BY <1>5, TakeKeepsInv, BusyKeepsInv
<1>6. ASSUME NEW n \in Server, NEW j \in JobId, Late(n, j) PROVE NodeInv'
    BY <1>1, <1>6 DEF Late
<1> QED BY <1>2, <1>3, <1>4, <1>5, <1>6 DEF NodeNext

\* The inductive invariant of the servers.
THEOREM NodeInvariance == NodeSpec => []NodeInv
BY NodeInitInv, NodeStepInv, PTL DEF NodeSpec

\* A server never has a job twice, and its table of active jobs is exact, whatever
\* polls, halts, restarts and refusals come between (server.py, _job_loop and
\* _job_worker).
THEOREM AlwaysHandledOnce == NodeSpec => []HandledOnce
<1>1. NodeInv => HandledOnce
    BY DEF NodeInv
<1> QED BY <1>1, NodeInvariance, PTL

-----------------------------------------------------------------------------
(* The servers are users of the market. *)

\* A worker that is not idle works for a job that exists.
LEMMA BusyHasJob ==
    ASSUME NodeInv, NEW n \in Server, NEW w \in Worker, NEW p \in Phase, Doing(n, w, p)
    PROVE  work[n][w].job \in JobId
BY EntryIsBusy DEF NodeInv, NodeTypes, Doing

\* Every step is a step of the market, or one that the market does not see.
LEMMA NodeStepIsMarketStep == NodeInv /\ [NodeNext]_nodeVars => [Next]_vars
<1> SUFFICES ASSUME NodeInv, [NodeNext]_nodeVars PROVE Next \/ UNCHANGED vars
    OBVIOUS
<1>1. CASE UNCHANGED nodeVars
    BY <1>1 DEF nodeVars
<1>2. CASE Market
    BY <1>2 DEF Market, Next
<1>3. ASSUME NEW n \in Server, Poll(n) \/ PollTies(n) \/ Halt(n) \/ Restart(n) PROVE UNCHANGED vars
    BY <1>3 DEF Poll, PollTies, Halt, Restart, GoDown
<1>4. ASSUME NEW n \in Server, NEW w \in Worker, WorkerStep(n, w) PROVE Next \/ UNCHANGED vars
    <2>1. n \in Wallet
        BY ServerAssumption
    <2>2. CASE Claim(n, w)
        BY <2>1, <2>2, BusyHasJob DEF Claim, Next, Phase
    <2>3. CASE Submit(n, w)
        BY <2>1, <2>3, BusyHasJob DEF Submit, Next, Phase
    <2>4. CASE ~ Claim(n, w) /\ ~ Submit(n, w)
        BY <1>4, <2>4 DEF WorkerStep, Take, ClaimFails, Retry, Infer, UploadRaises, Upload, Abandon,
                          SubmitFails
    <2> QED BY <2>2, <2>3, <2>4
<1>5. ASSUME NEW n \in Server, NEW j \in JobId, Late(n, j) PROVE Next
    BY <1>5, ServerAssumption DEF Late, Next
<1> QED BY <1>1, <1>2, <1>3, <1>4, <1>5 DEF NodeNext

\* Servers, their crashes and their late transactions do nothing to the market that
\* wallets could not do: what holds of the market holds with them.
THEOREM ServersObeyMarket == NodeSpec => Spec
<1>1. NodeInit => Init
    BY DEF NodeInit
<1> QED BY <1>1, NodeStepIsMarketStep, NodeInvariance, PTL DEF NodeSpec, Spec

\* So the escrow of every unsettled job stays covered, and every claim decides.
THEOREM ServersKeepMarketInv == NodeSpec => []MarketInv
BY ServersObeyMarket, Invariance, PTL

-----------------------------------------------------------------------------
(* A claim that its worker has lost. *)

\* Of the instructions only submit_result by its node moves a job in progress.
LEMMA InProgressStays ==
    ASSUME MarketInv, NEW j \in JobId, job[j].status = "InProgress"
    PROVE  /\ \A c \in Wallet, p \in Payments, d \in Deadlines : PostJob(c, p, d) => job'[j] = job[j]
           /\ \A n \in Wallet, k \in JobId : ClaimJob(n, k) => job'[j] = job[j]
           /\ \A n \in Wallet, k \in JobId :
                 SubmitResult(n, k) => job'[j] = job[j] \/ (n = job[j].node /\ k = j)
           /\ \A c \in Wallet, k \in JobId : AcceptResult(c, k) \/ DisputeResult(c, k) => job'[j] = job[j]
           /\ \A k \in JobId : AutoSettle(k) \/ RefundExpired(k) => job'[j] = job[j]
           /\ Tick => job'[j] = job[j]
<1> USE DEF MarketInv, TypeOK
<1>1. ASSUME NEW c \in Wallet, NEW p \in Payments, NEW d \in Deadlines, PostJob(c, p, d)
      PROVE job'[j] = job[j]
    BY <1>1 DEF PostJob, FreshSlots, JobId, Absent
<1>2. ASSUME NEW n \in Wallet, NEW k \in JobId, ClaimJob(n, k) PROVE job'[j] = job[j]
    BY <1>2 DEF ClaimJob
<1>3. ASSUME NEW n \in Wallet, NEW k \in JobId, SubmitResult(n, k)
      PROVE job'[j] = job[j] \/ (n = job[j].node /\ k = j)
    BY <1>3 DEF SubmitResult
<1>4. ASSUME NEW c \in Wallet, NEW k \in JobId, AcceptResult(c, k) \/ DisputeResult(c, k)
      PROVE job'[j] = job[j]
    BY <1>4 DEF AcceptResult, DisputeResult, PayOut
<1>5. ASSUME NEW k \in JobId, AutoSettle(k) \/ RefundExpired(k) PROVE job'[j] = job[j]
    BY <1>5 DEF AutoSettle, RefundExpired, PayOut, Refund
<1>6. ASSUME Tick PROVE job'[j] = job[j]
    BY <1>6 DEF Tick
<1> QED BY <1>1, <1>2, <1>3, <1>4, <1>5, <1>6

\* With an abandoned claim, no step submits the job, and none gives it to a worker
\* that could.
LEMMA AbandonedStays ==
    ASSUME MarketInv, NodeInv, [NodeNext]_nodeVars, NEW j \in JobId, Abandoned(j)
    PROVE  Abandoned(j)'
<1> DEFINE m == job[j].node
           Safe(k) == \A w \in Worker : k[w].job = j => k[w].phase = "claiming"
<1>0. /\ m \in Server /\ job[j].status = "InProgress" /\ <<"submit", m, j>> \notin late
      /\ Safe(work[m]) /\ Idle.job # j
      /\ work \in [Server -> [Worker -> WorkEntry]]
    BY EntryIsBusy, MarketAssumption DEF Abandoned, NodeInv, NodeTypes, Idle, JobId
<1>a. ASSUME job'[j] = job[j], <<"submit", m, j>> \notin late', Safe(work'[m])
      PROVE Abandoned(j)'
    BY <1>0, <1>a DEF Abandoned
<1>b. \A n \in Server, w \in Worker :
          work[n][w].phase \in {"inferring", "uploading", "submitting"} => n # m \/ work[n][w].job # j
    BY <1>0
<1>c. \A n \in Wallet, k \in JobId :
          /\ ClaimJob(n, k) => job'[j] = job[j]
          /\ SubmitResult(n, k) => job'[j] = job[j] \/ (n = m /\ k = j)
    BY <1>0, InProgressStays
<1> HIDE DEF Safe, m
<1>1. CASE UNCHANGED nodeVars
    BY <1>0, <1>1, <1>a DEF nodeVars, vars, server
<1>2. CASE Market
    <2>1. job'[j] = job[j]
        BY <1>0, <1>2, <1>c, InProgressStays DEF Market
    <2> QED BY <1>0, <1>2, <1>a, <2>1 DEF Market, server
<1>3. ASSUME NEW n \in Server, Poll(n) \/ Restart(n) PROVE Abandoned(j)'
    BY <1>0, <1>3, <1>a DEF Poll, Restart, vars
<1>4. ASSUME NEW n \in Server, GoDown(n) PROVE Abandoned(j)'
    <2>1. <<"submit", m, j>> \notin late'
        <3>1. ASSUME NEW w \in Worker, Doing(n, w, "submitting"), <<"submit", n, work[n][w].job>> = <<"submit", m, j>>
              PROVE FALSE
            BY <1>b, <3>1 DEF Doing
        <3> QED BY <1>0, <1>4, <3>1 DEF GoDown
    <2>2. Safe(work'[m])
        BY <1>0, <1>4 DEF GoDown, Safe
    <2>3. job' = job
        BY <1>4 DEF GoDown, vars
    <2> QED BY <1>a, <2>1, <2>2, <2>3
<1>5. ASSUME NEW n \in Server, PollTies(n) \/ Halt(n) PROVE Abandoned(j)'
    BY <1>4, <1>5 DEF PollTies, Halt
<1>6. ASSUME NEW n \in Server, NEW w \in Worker, NEW e, e.job = j => e.phase = "claiming",
             work' = [work EXCEPT ![n][w] = e]
      PROVE  Safe(work'[m])
    BY <1>0, <1>6 DEF Safe
<1>7. ASSUME NEW n \in Server, NEW w \in Worker, Take(n, w) PROVE Abandoned(j)'
    <2>1. job' = job /\ late' = late
        BY <1>7 DEF Take, vars
    <2>2. Safe(work'[m])
        <3>1. CASE UNCHANGED work
            BY <1>0, <3>1
        <3>2. CASE \E k : work' = [work EXCEPT ![n][w] = [phase |-> "claiming", job |-> k, attempt |-> 0]]
            BY <1>6, <3>2
        <3> QED BY <1>7, <3>1, <3>2 DEF Take
    <2> QED BY <1>0, <1>a, <2>1, <2>2
<1>8. ASSUME NEW n \in Server, NEW w \in Worker, Release(n, w), job'[j] = job[j],
             <<"submit", m, j>> \notin late'
      PROVE Abandoned(j)'
    <2>1. Safe(work'[m])
        BY <1>0, <1>6, <1>8 DEF Release
    <2> QED BY <1>8, <1>a, <2>1
<1>9. ASSUME NEW n \in Server, NEW w \in Worker, ClaimFails(n, w) \/ Abandon(n, w) PROVE Abandoned(j)'
    <2>1. job' = job /\ Release(n, w)
        BY <1>9 DEF ClaimFails, Abandon, vars
    <2>2. <<"submit", m, j>> \notin late'
        BY <1>0, <1>9 DEF ClaimFails, Abandon
    <2> QED BY <1>8, <2>1, <2>2
<1>10. ASSUME NEW n \in Server, NEW w \in Worker, Submit(n, w) PROVE Abandoned(j)'
    <2>1. n # m \/ work[n][w].job # j
        BY <1>10, <1>b DEF Submit, Doing
    <2>2. work[n][w].job \in JobId /\ n \in Wallet
        BY <1>10, BusyHasJob, ServerAssumption DEF Submit, Phase
    <2>3. job'[j] = job[j]
        BY <1>10, <1>c, <2>1, <2>2 DEF Submit
    <2> QED BY <1>0, <1>8, <1>10, <2>3 DEF Submit
<1>11. ASSUME NEW n \in Server, NEW w \in Worker, SubmitFails(n, w) PROVE Abandoned(j)'
    <2>1. n # m \/ work[n][w].job # j
        BY <1>11, <1>b DEF SubmitFails, Doing
    <2>2. <<"submit", m, j>> \notin late'
        BY <1>0, <1>11, <2>1 DEF SubmitFails
    <2> QED BY <1>8, <1>11, <2>2 DEF SubmitFails, vars
<1>12. ASSUME NEW n \in Server, NEW w \in Worker, Claim(n, w) PROVE Abandoned(j)'
    <2>1. work[n][w].job \in JobId /\ n \in Wallet
        BY <1>12, BusyHasJob, ServerAssumption DEF Claim, Phase
    <2>2. job'[j] = job[j] /\ work[n][w].job # j
        BY <1>0, <1>12, <1>c, <2>1 DEF Claim, ClaimJob
    <2>3. late' = late /\ Safe(work'[m])
        BY <1>0, <1>12, <2>2 DEF Claim, GoOn, Safe
    <2> QED BY <1>0, <1>a, <2>2, <2>3
<1>13. ASSUME NEW n \in Server, NEW w \in Worker,
              Retry(n, w) \/ Infer(n, w) \/ UploadRaises(n, w) \/ Upload(n, w)
       PROVE Abandoned(j)'
    <2>1. n # m \/ work[n][w].job # j
        BY <1>13, <1>b DEF Retry, Infer, UploadRaises, Upload, Doing
    <2>2. job' = job /\ late' = late
        BY <1>13 DEF Retry, Infer, UploadRaises, Upload, GoOn, vars
    <2>3. work[n][w] \in [phase : Phase, job : JobId, attempt : Nat]
        BY <1>0, <1>13 DEF Retry, Infer, UploadRaises, Upload, Doing, WorkEntry, Idle
    <2>4. PICK e : e.job = work[n][w].job /\ work' = [work EXCEPT ![n][w] = e]
        <3>1. CASE Retry(n, w) \/ UploadRaises(n, w)
            <4>1. work' = [work EXCEPT ![n][w] = [work[n][w] EXCEPT !.attempt = @ + 1]]
                BY <1>0, <3>1 DEF Retry, UploadRaises
            <4> QED BY <2>3, <4>1
        <3>2. CASE Infer(n, w)
            <4>1. work' = [work EXCEPT ![n][w] = [work[n][w] EXCEPT !.phase = "uploading", !.attempt = 0]]
                BY <1>0, <3>2 DEF Infer
            <4> QED BY <2>3, <4>1
        <3>3. CASE Upload(n, w)
            <4>1. work' = [work EXCEPT ![n][w] = [work[n][w] EXCEPT !.phase = "submitting"]]
                BY <1>0, <3>3 DEF Upload, GoOn
            <4> QED BY <2>3, <4>1
        <3> QED BY <1>13, <3>1, <3>2, <3>3
    <2>5. Safe(work'[m])
        <3>1. CASE n = m
            BY <1>6, <2>1, <2>4, <3>1
        <3>2. CASE n # m
            <4>1. work'[m] = work[m]
                BY <1>0, <2>4, <3>2
            <4> QED BY <1>0, <4>1
        <3> QED BY <3>1, <3>2
    <2> QED BY <1>0, <1>a, <2>2, <2>5
<1>14. ASSUME NEW n \in Server, NEW k \in JobId, Late(n, k) PROVE Abandoned(j)'
    <2>1. n \in Wallet
        BY ServerAssumption
    <2>2. job'[j] = job[j]
        BY <1>0, <1>14, <1>c, <2>1 DEF Late
    <2>3. late' \subseteq late /\ work' = work
        BY <1>14 DEF Late
    <2> QED BY <1>0, <1>a, <2>2, <2>3
<1>15. ASSUME NEW n \in Server, NEW w \in Worker, WorkerStep(n, w) PROVE Abandoned(j)'
    BY <1>7, <1>9, <1>10, <1>11, <1>12, <1>13, <1>15 DEF WorkerStep
<1> QED BY <1>1, <1>2, <1>3, <1>5, <1>14, <1>15 DEF NodeNext

\* A claim whose worker gave up, lost the answer or died is never worked on again
\* (server.py, _handle_job; lib.rs has no way back from InProgress).
THEOREM AbandonedStaysForGood == NodeSpec => AbandonedForGood
<1>1. MarketInv /\ NodeInv /\ [NodeNext]_nodeVars
          => [\A j \in JobId : Abandoned(j) => Abandoned(j)']_nodeVars
    BY AbandonedStays
<1> QED BY <1>1, NodeInvariance, ServersKeepMarketInv, PTL DEF NodeSpec, AbandonedForGood
=============================================================================
