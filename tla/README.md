# TLA+ models of the decentralized LLM network

This directory holds a formal model of the repository: TLA+ modules that follow
the source, TLC configurations that check them on small instances, and proofs
that TLAPS checks for every value of the constants. `PROJECT.json` is the index:
it maps every definition to the lines it models, every property to the run that
checks it and to a defect that breaks it, and lists the hazards and where the
code and its documentation disagree.

## 1. The system

The network sells LLM inference for tokens. Three Solana programs hold the
money and the rules; each operator runs a node, a single asyncio process; nodes
find each other through a DHT and pass activations over TCP; clients post jobs on
the chain or talk to an HTTP gateway.

| Part | State | Operations | What makes it hard | What makes it correct |
|---|---|---|---|---|
| inference-market (`programs/inference-market`) | job accounts, an escrow per job, token accounts | initialize, post_job, claim_job, submit_result, accept_result, dispute_result, auto_settle, refund_expired | transactions of anybody in any order, which name the token accounts themselves; three clocks (deadline, claim, window); fee rounding | the escrow of a job that waits covers its payment, and what was locked leaves once, in one direction; no instant at which two parties or none may act |
| compute-registry (`programs/compute-registry`) | node accounts, stake vaults, treasury | register_node, add_stake, begin_unstake, withdraw_stake, record_completion, slash, update_endpoint | a request is used days after it was checked, slashes come in between; callers name the token accounts | a stake account falls only with its record, in a withdrawal that is due or a slash; below the minimum means inactive; inactive is final |
| governance (`programs/governance`) | proposals, vote records, bonds | initialize, create_proposal, cast_vote, finalize_proposal, execute_proposal | tokens move between votes; periods that must neither overlap nor leave a gap; rounding; bonds in any account | tallies are the sums of the records; the outcome fits the tally for ever; nothing runs early; a bond leaves a proposal once |
| node server (`node/server.py`, `node/blockchain.py`) | in-memory table and priority queue of jobs, workers | poll, claim, infer with retries, upload, submit, heartbeat; start, stop, signals | every await lets the chain and the other tasks move; transactions time out on the client and succeed on the chain; crashes forget everything; a signal may come during start | each job once; an abandoned claim is not taken up; a pending result does not stay pending; a signal ends serving |
| continuous batcher (`node/continuous_batcher.py`) | waiting queue, running table, block table | add_request, schedule, step, get_finished | schedule changes the tables it iterates over; preemption; MemoryError half-way | the pool is never handed out twice; no request is lost, doubled or cut short |
| dynamic batcher (`node/batcher.py`) | buffers and events per model | add_job, next_batch | events replaced under a waiter | every job is batched |
| KV cache (`node/kv_cache.py`) | block tables, reference counts | allocate, share_prefix, write, free | sharing and copy-on-write | a block is free or counted; a write is seen by its sequence only |
| circuit breaker (`node/circuit_breaker.py`) | state, two counters, time of the last failure | call, state, reset, stats, the forced trip | overlapping calls report in a state that is not the one they started in | late answers do not close it; it closes again |
| shard clients (`node/p2p.py`, `node/peer_manager.py`) | a breaker per peer, a cache of clients, known peers | discover, forward, tick, heartbeat | two writers of one counter; a cache refresh replaces open circuits; two concurrent discoveries | a peer that failed rests; one good peer is enough |
| DHT (`node/p2p.py`) | announcements that expire | announce, lookup on one or several paths | nodes of a shard share a key; announcements expire between the paths of a lookup | a lookup finds what was announced all along |
| pipeline and activation streaming (`node/server.py`, `node/activation_stream.py`) | a future per job and shard, frames on the way | connect, push, receive, deliver | frames without a waiter; retries of what arrived; timeouts on both sides; nodes that stop; peers that do not read | every run of a job ends, with its result, a fallback or an error, unless its push hangs |
| generation, speculation (`node/shard_manager.py`, `node/speculative_decoder.py`) | layers of a shard, rows of a batch, decoded tokens | load, generate, generate_batch, decode | slices and classes of models; early ends inside a batch; acceptance and residual | layers once over the shards; rows are runs of the single sampler; speculation changes no probability |
| adapters, model registry (`node/adapter_manager.py`, `node/model_registry.py`) | registry, slots, hooks; managers per model | register, load, swap, unload; load, get, unload | eviction of what is active; a failure half-way through the modules; loads that overlap | tracked hooks are those of the active adapter; a job is served by its model |
| dispatch (`node/reputation_engine.py`, `router.py`, `shard_balancer.py`) | scores, outcomes, loads | record, decay, route, begin and finish work, settle | copies of scores, and loads of nodes that come and go with them | load is work in progress, up to the updates that were ignored |
| topology (`node/topology_optimizer.py`) | latencies, deployed assignment, the annealing search | observe, optimize, should_rebalance | a random search with its own best and current; hysteresis | rebalancing always improves |
| gossip (`node/gossip.py`) | seen ids per node | broadcast, receive, forward, prune | hops spent on a detour, duplicates | with enough hops everyone hears |
| settlement, earnings (`node/settlement.py`, `earnings.py`) | pending payments, batches, records of a window | add, flush, confirm, fail, record, prune | a late fail after a confirm, retries | money is in one place |
| verification (`node/zk_verifier.py`, `merkle.py`, `verification_pipeline.py`) | proofs of nodes, reports | commit, prove, spot-check, settle, vote of peers | duplicated leaves of a Merkle tree; sketches that agree by being close; fields that no signature covers; quorums | settled means computed, up to what a tree and a sketch can tell |
| RPC pool (`node/rpc_pool.py`) | clients, queue | start, acquire, release, close | close while clients are out, and a start after it | a client has one user and is counted |
| result cache (`node/result_cache.py`) | entries in order of use | get, put, evict, expire | the order of use against the order of insertion | what is recent stays |
| task slots (`node/task_runner.py`, `resource_manager.py`) | a semaphore, waiters, states of tasks | submit, cancel, acquire with backoff | cancellation between a release and its wake-up | waiters get slots |
| gateway (`scripts/api_gateway.py`, `integrations/paysh`) | rate buckets, payments to mint, counters | completions, stream, webhook, mint | background tasks, duplicate deliveries | the rate is bounded; minted is paid |
| the rest | see `PROJECT.json` and section 6 | | | |

Interactions: the node server reaches the chain by RPC (claim, submit,
auto_settle, register, heartbeat), the storage by HTTP, the other shards by TCP
(activations) and by the DHT (endpoints). Within a node everything shares one
event loop: state changes only between awaits. The breaker guards the inference
of the node and each remote peer. The chain's programs do not call each other.
The gateway shares nothing with a node but the chain.

## 2. Modules

| Module | Models | Composed with |
|---|---|---|
| `EscrowContract` | abstract: what the market promises for the tokens of one job | refined by `InferenceMarket` |
| `TokenProgram` | the token program's transfer, as operators | extended by the three programs |
| `InferenceMarket` | the market program, one action per instruction | `INSTANCE EscrowContract WITH ...` |
| `ComputeRegistry` | the registry program | |
| `Governance` | the DAO program | |
| `NodeServer` | node servers on the market | `EXTENDS InferenceMarket`: the market's actions are its environment and its workers' claims and submissions |
| `PrivatePages` | abstract: sequences that share nothing | refined by `PagedKVCache` |
| `PagedKVCache` | block tables, reference counts, copy-on-write | `INSTANCE PrivatePages WITH ...` |
| `CircuitBreaker` | the breaker as operators on a record, and the callers around it | |
| `ShardPeers` | discovery, cached clients, a breaker per peer | has the operators of a breaker for each peer of each client |
| `Discovery` | announcements and lookups in the DHT | |
| `Lifecycle` | start, stop and main of the node under signals | |
| `RpcPool`, `TaskSlots`, `ResultCache` | pool of clients, semaphore of tasks, cache of results | |
| `Dispatch` | reputation, router and balancer, with one table of nodes | |
| `Topology` | placements, the search and the decision to rebalance | |
| `ModelRegistry` | managers per model, and the workers that look them up | |
| `Gossip` | floods | |
| `Gateway` | rate limit, completions, webhook and mints | |
| `Adapters` | adapters, slots, hooks | |
| `Settlement` | payments in batches, earnings in a window | |
| `ContinuousBatcher` | scheduler and block pool | |
| `DynamicBatcher` | windows, their events and consumers | |
| `Pipeline` | a job on all shards, the frames between them | |
| `Speculation`, `Generation` | decoding as exact distributions | |
| `Attestation` | commitments, Merkle proofs, decisions | |
| `MCServices`, `MCServing` | several of the above in one run | see below |
| `...Proofs` | theorems about the module before the suffix; `ServicesProofs` and `ServingProofs` about parts of `services` and `serving` | |
| `CollectionTheorems` | lemmas about folds, sums and sequences that no library module has | cited by the proofs |
| `MC...` | small instances for TLC | |

**Composites.** `MCServices` and `MCServing` hold components that share no state
in the code. Interleaving them would multiply their states and show nothing, so
a behaviour belongs to the component that `part` names in its initial state, and
`Only(x)` keeps the variables of the others. The modules with theorems are
extended, so that TLC evaluates their assumptions (and their names differ for that
reason: `Prover`, `Announcer` and `Gossiper` are nodes); the others, `TaskSlots`,
`Lifecycle`, `DynamicBatcher` and `Pipeline`, are instances.
Where components do meet, the modules meet: `NodeServer` extends the market,
`ShardPeers` holds breakers, `Dispatch` joins engine, router and balancer through
the node objects, `Pipeline` joins the server's inference with the stream,
`ModelRegistry` joins the registry with the workers of the server, and
`Generation` the shard manager with its callers.

**Chain programs.** A transaction is one action: the guards are its `require!`s,
its checked arithmetic and the token program's balance checks, and a failing
transaction changes nothing. Ids, hashes, CIDs, titles and calldata are left
out. Account validation is modelled by what may be named. `tokens` says what is in
each token account, `Owner` and `Mint` whose it is and of what mint, and a transfer
goes through between any two accounts of one mint on the owner's signature
(`TokenProgram`), also from an account to itself. The programs create a job's
escrow and a node's stake account themselves (named by the job and the operator) and
constrain the accounts they pay in from; the accounts of `accept_result`,
`auto_settle` and `refund_expired` (`lib.rs:438-443`, `:461-465`, `:474-476`), of
`add_stake`, `withdraw_stake` and `slash` (registry, `:320-323`, `:339-342`,
`:359-362`), and of the bond and the votes (governance, `:326-329`, `:351`,
`:371-374`) are the caller's choice. So are they here: `PayOut` and `Refund` pay from
any account that the job account owns to any accounts, escrows of other jobs and the
same account among them; `AddStake` pays into any account, `TakeFromNode` takes from
any of the node's; `CreateProposal` puts the bond anywhere, `PayBondOf` takes one from
any account of the proposal. What the properties say of tokens is what is left: nobody
draws on an account without the instruction that has its owner's signature, and
those are given once. That a record equals what is in an account is not so in the code
and is no property (section 5). `U64Max` is small so that overflow of `checked_mul` happens.

**NodeServer.** `Poll` is a turn of `_job_loop`, `Take` is the queue's get with
the expiry check, and the phases of a worker are its awaits: claiming, inferring
(with retries), uploading, submitting. `Claim` and `Submit` are the on-chain
instruction and its confirmation in one step; `ClaimFails` and `SubmitFails`
leave the transaction, possibly, in `late`, from where `Late` executes it after
its sender gave up. `_upload_result` (`server.py:585-607`) catches what the
storage raises: `UploadRaises` tries again while the storage's circuit, which opens
at `MaxUploads` failures, is closed, and the placeholder of `Upload` ends the phase
in every case. `Halt` is a crash or stop anywhere, `Restart` the container's
policy. The filter of `fetch_open_jobs` (offset 144) compares the length of the
prompt's CID and not the status, so `Fetched` returns visible jobs in every
state. `JobCleaner` finds no deadline in the table's entries (all are `True`)
and removes nothing, so it has no action. Two queued jobs of equal payment make
the heap compare `OpenJob`s, which raises `TypeError`: `PollTies` ends the
process. `MaxJobs <= 2` because with three entries the error may also surface in
a worker's get. A poll comes seconds after the one before, when no worker is
idle next to a waiting job; that is the one assumption on scheduling.

**Lifecycle.** The awaits of `start` and of `stop` are steps; every signal starts
its own `stop`, also during `start`, which nobody tells and which then sets
`_running`. What start opens (client, DHT, receiver) and stop closes is kept as
the fields that the process holds and, for the receiver, whether a socket that it
has dropped still listens.

**ContinuousBatcher.** `schedule` is one action built of folds over the sorted
copy of the queue and over the copy of the running table, carrying the tables,
because each iteration may preempt what later ones look at. The stable sort of
`sorted` is `Sorted`, insertions in turn, and the loops are `FoldLeft`s, because
theorems need their definitions. The sizes of the
pool are chosen in `Init` (`engine`), so one run covers a tight and a roomy pool.
An exhaustive exploration of the Python class itself on the same instance visits
the same number of states (16,623 for the tight engine, 8,940 for the roomy one).

**DynamicBatcher.** A consumer of `next_batch` is looking, waiting for the event
of the window it saw, or about to drain it. An event that was replaced stays with
its waiters until their timeout. Models share nothing but a lock, so there is one.

**Pipeline.** Each shard has its stage of `_run_inference` for the job; `frames`
are what is written to a connection and not yet read. Frames are lost with their
reader, doubled by retries, and late; the frame format and the tensors are left
out. A push whose time is over while its peer does not read cancels `send`, which
then closes the connection and waits for it without a bound: `PushHangs`, out of which
only the peer leads (`PeerReleases`). Only the claimant's node runs the job at all, so
`serving` says which nodes do.

**CircuitBreaker, ShardPeers.** Time is the number of ticks since the last
failure, no longer counted once past the timeout. `MaxFailures` bounds failures
between successes. `ShardPeers` gives way to other tasks where the code awaits,
at the DHT and at the remote call; a client that was replaced in the cache lives
on in the tasks that hold it. Counts of missed heartbeats are left out, nothing
reads them.

**Discovery.** A store of announcements with their remaining life, a lookup as
one read per path. Two nodes of one shard write the same key, the later hides the
earlier. Hivemind itself is external.

**Dispatch.** Scores are integers, twentieths, of which every boost and penalty is
a multiple. The engine's and the node objects' scores are different variables,
since the router reads the one and the balancer the other. A choice (`Route`,
`Select`) changes no load; the caller's `update_load` does, when the request begins
and ends. A node that was deregistered keeps its object, `ListNode` registers it again
with the load it left with, and `ListNewNode` another object with the load its maker
gave it (`Claimed`). `missed` is history: the starts and ends that `update_load` did
not count because the node was not registered, and what a new object claims.

**Topology.** One action per iteration of the annealing: a random move, kept or
not. The probability of acceptance is a choice between both where it is neither 0
nor 1. Scores are scaled by the number of shards to be integers; the spread of
the loads (a standard deviation) is the constant `Imbalance`.

**Gossip.** A flood is a walk, depth first, because `receive` awaits each forward;
the sample of the peers is a choice.

**Speculation, Generation.** Probabilities are integer weights per last token.
`Lossless` and `RowsAreRuns` compare exact distributions, not samples. A model in
`Generation` is what the discovery of layers looks at: its class, its module lists
and where its embedding, norm and head are.

**Attestation.** Hashes are tuples of what was hashed, signatures name their key,
and the sketches of two samples agree when the samples are in `Close`. What the
code does with them (last leaves doubled in a Merkle tree, which fields enter a
commitment, what a missing challenge means) is followed line by line. Nodes build proofs
(`BuildProof`); `should_settle` is an operator, asked about every proof in `Handed`: a
commitment of any fields around a signature that some node made, with any job and
any root, which no signature covers. Nothing reads the proof's token count, node and
time, so they are left out. Trees, paths and their recomputation are recursive
functions, for outputs of any length.

**PagedKVCache.** One action per method; a call that raises changes nothing.
`write` is two actions, `Write` and `WriteClone`, by the count of the block. A pair
of a key and a value is one element of `Value`, the store is a function from
blocks to their cells, one per layer and offset. The contents of a block survive
its release, as in the code, so a fresh table shows what the last owner left;
`PrivatePages` allows any contents there. `Unreferenced` returns to the pool what
reaches zero. `read` and `utilization` change nothing. `MaxTokens` bounds the
tokens asked for in one call.

**Classes without a caller.** Nothing in the repository but tests uses the batchers,
the KV cache, the adapters, the speculative decoder, the topology optimizer, the
router and its engine, gossip, settlement and earnings, the RPC pool, the result
cache, the task slots and the verification pipeline. Their modules allow every order
of calls that their interfaces do.

## 3. Runs

| Run | Instance | States | Shows |
|---|---|---|---|
| `market` | 2 jobs, 2 wallets, payments 0/1/39 around the first unit of fee; an account of each wallet, a second one of job 0 and one of job 1 for another mint | 749,629 | `EscrowCovered`, `ExactlyOneWayOn`, refinement `ImplementsContract` |
| `registry` | 2 operators with an account each, one of them slashed and with an account of its node for another mint | 3.4 M | `OverclaimOnlyAfterSlash`, `ActiveKeepsMinStake`, `VaultFallsWithRecord` |
| `governance` | 2 keys with an account each, 2 proposals of which one has an account, 3 tokens, a bond of 1 | 3.6 M | `TalliesMatchBallots`, `OutcomeFitsTally`, `BondLeavesOnce` |
| `node` | 1 server, 2 workers, 2 jobs of equal or different payment, 1 crash, 1 retry, a storage that may fail twice | 1.3 M | `HandledOnce`, `AbandonedForGood`, `PendingResolves` |
| `kv` | 3 sequences, 4 blocks of 2 tokens, 1 layer, 2 values, symmetric sequences and blocks | 75,444 | `BlocksAccounted`, refinement `ImplementsPrivatePages` |
| `services` | 14 components, see below | 240,049 | see below |
| `serving` | 6 components, see below | 52,174 | see below |
| `batcher_lost` | 3 sequences, 3 blocks | violation | `NothingLost` |
| `governance_bond` | 2 keys, 1 proposal | violation | `ExecutableAfterTimelock` |
| `node_unsettled` | 1 server, 1 worker, 1 job, no keeper | violation | `PendingResolves` |
| `gateway_mint` | 2 payments, of which one failed, each delivered once | violation | `MintedAsPaid` |
| `adapter_unload` | 2 slots, 1 adapter | violation | `OnlyActiveIsWired` |

The parts of `services`:

| Part | Instance | Shows |
|---|---|---|
| `breaker` | 3 callers, 2 of them cancellable, thresholds 3 and 2, timeout 2 | `LateAnswersKeepOpen`, `Recovers` |
| `peers` | 2 tasks, 2 peers, one of them in the peer manager and the other reliable, 3 clients | `FailedPeerRests`, `OnePeerSuffices` |
| `pool` | 2 clients, 2 borrowers, 4 clients made in all | `ClientsAccounted` |
| `dispatch` | 2 nodes, 2 requests, room for 1, new objects with a load of 0 or 1, 1 ignored start and end for each | `LoadFitsWork` |
| `gossip` | 3 nodes in every topology, floods of 1, 2 and 3 hops | `FloodReachesAll` |
| `gateway` | 1 request in 2 ticks, 4 requests, 1 payment | `RateIsBounded` |
| `adapters` | 2 slots for 4 adapters, one broken in its second module, one unreadable | `HooksAreTracked` |
| `settlement` | 2 jobs of amounts 1 and 2, a window of 1 | `MoneyIsAccounted` |
| `topology` | 2 shards on 3 nodes, 2 latency matrices, 2 iterations | `NoThrashing` |
| `results` | 3 keys for 2 entries | `RecentStaysCached` |
| `models` | 2 models, a supported list that repeats one, 2 workers, 5 managers | `ServedByItsModel` |
| `discovery` | 3 nodes, 2 shards, lookups on 2 paths, 3 starts | `LookupsFind` |
| `slots` | 3 tasks for 2 slots, 2 attempts, 2 tasks cancellable | `WaitersGetSlots` |
| `process` | 2 signals | `SignalEndsServing` |

The parts of `serving`:

| Part | Instance | Shows |
|---|---|---|
| `batcher` | 4 sequences, a pool of 7 blocks and one of 23 | `PoolNotOversubscribed`; in the roomy pool `InOnePlace`, `FinishesExactly`, `OldestProgresses` |
| `windows` | 3 jobs, 2 consumers, batches of 2 | `EveryJobIsBatched` |
| `pipeline` | 3 shards, 2 attempts to push, each of which may hang, 2 frames before a shard | `InferenceEnds` |
| `speculation` | 3 tokens, weights of sum 4, 2 drafts, 5 tokens | `Lossless` |
| `generation` | 4 shapes of models, 1 to 3 shards, 2 prompts, 3 tokens, batch of 2 | `LayersHeldOnce`, `RowsAreRuns` |
| `attestation` | 3 nodes, 3 jobs, two of them with one prompt, 3 outputs, samples equal, close and different, proofs of any fields handed in | `SettledAsComputed` |

Why the bounds are enough. Two jobs, proposals, operators or wallets are what the
interactions need: the programs relate at most two accounts of a kind. The
market's clock runs one tick past the last window, that of a claim just before its
deadline; that of governance until a proposal of the first tick can be executed. Payments are on
both sides of a whole unit of fee (39, 40) and of the largest product in u64
(40, 41 with 20,000), amounts and slashes on both sides of the minimum. Besides the
accounts of the keys there are those that the code does not tell from the ones it
created: a second one of the same owner and mint, and one of another mint. The
registry's clock has room for two cooldowns in a row. One ignored update of a kind and node is
enough for a load to differ from the work in either direction. The
`node` run has two workers, so a job can be queued, handled and polled at once;
one crash, because a second one starts from empty tables again; one late
transaction of each kind and job. The tight engine was chosen because its runs
requeue a sequence twice, lose one and raise MemoryError. `MaxFailures = 7` is a
threshold reached, passed by a late failure, and passed by a forced trip. The
cache has three sequences on four blocks, so that a block has three users, a
clone takes the last free block, a prefix ends inside a block, and a freed block
goes to a new owner. Two tasks with three clients let a refresh replace the client
that the other task holds, while it is open. Four clients are the pool closed with
all of them out, and started again. Three gossip nodes have a detour on which hops
run out. Three tasks for two slots have one that waits while two end or are
cancelled in either order. Three shards are a first, a middle and a last one. Five
managers are the primary, loaded twice, and overlapping loads of the other model.
The outputs of the attestation are told apart by everything but the doubling of
a last leaf.

Every property has a defect (the definitions ending in `_Bad`) that breaks it
under the same configuration.

**Deadlock** is not checked where the system may stop: the clocks and the
numbers of jobs are bounded, and batchers may have nothing to do. `services`
checks it.

**Fairness.** `node`: the clock advances, and somebody calls `auto_settle` for
every job past its window (`KeptSpec`). The instruction is open to anyone, and
the heartbeat loop is written to do it (`server.py:149`). As written that call
cannot succeed, so `UnkeptSpec` has only the heartbeat, and `node_unsettled`
shows what follows. Nothing is assumed of clients, servers or claimants.
`services`: clocks advance; a caller of the breaker that is not cancelled calls
again and its calls end, where failures are bounded, which says that the service
comes back; a task that looks for a peer goes on; a task that sleeps, was woken
or has a slot goes on, which is the event loop and tasks that end; a poll of the job
loop ends and a created stop task begins. `serving`: clocks advance; the loop of
`next_batch` goes on; the nodes of the shards take their next step for a job they
have begun, but nothing makes a peer read, so `PeerReleases` is not fair. All of them are
steps of one event loop or its timers. `batcher` uses
no fairness: `OldestProgresses` is the step that a termination argument rests on.

## 4. Proofs

All constants are arbitrary up to the named assumptions (`MarketAssumption`,
`BatcherAssumption`, ...), which TLC evaluates in the runs. A theorem that needs more
names it in its statement; these premises are listed below. Each part has the
same shape: lemmas on the operators, an inductive invariant, `Init` implies it, one
step per action preserves it, and the theorems follow.

**Chain programs.**

- `InferenceMarketProofs`: `MarketInv` is types, `EscrowCovered`, `ClaimDecides`
  and that the escrows of jobs not yet posted are empty (`FreshSlots`), without
  which `post_job` could land on tokens. All that is used of a payout or refund is what
  it cannot do whatever accounts are named (`Drawn`): take more than the payment from
  its job's escrow, or anything from another one's. The lemma `FeeSplit` says that the
  two transfers add up to the payment for every amount. Theorems: `TypeCorrect`,
  `EscrowAlwaysCovered`, `ClaimAlwaysDecides`; and `MarketImplementsContract`, the
  refinement: every instruction is a step of the escrow contract or a stutter.
  `OneIsAlwaysReady` is what can be proved of `ExactlyOneWayOn`: the guards of the
  four instructions are written out, `ReadyIsNeeded` says that none goes through
  without its guard, `ClaimSucceeds`, `RefundSucceeds`, `DisputeSucceeds` and
  `SettleSucceeds` that with it each does, and the theorem that the guards exclude
  each other and leave no instant out. It needs `EscrowCovered`: no shortage in the
  escrow account can stop a refund or a settlement. `DueStaysDue` adds that from the
  instant a settlement or refund is due it goes through whenever it is called, and that
  no other instruction gets in between (`DueStep`). `TokensAlwaysConserved` sums over
  all the accounts of a mint, escrows included: a step takes from one what it puts into
  another, also if callers name one account twice.
- `ComputeRegistryProofs`: `RegistryInv` adds that unregistered operators have
  nothing and that a pending request of an active node that was not slashed leaves it
  the minimum (`RequestLeavesMinimum`), without which a withdrawal could end below it.
  Theorems: `TypeCorrect`, `ActiveAlwaysKeepsMinStake`, `ActiveAlwaysReputable`,
  `OverclaimNeedsSlash`, `DeactivationStays`; `VaultsFallWithRecords`, from what the
  transfers cannot do (`DrawnFrom`); and `StakesAlwaysConserved`, the sum of a mint's
  accounts.
- `GovernanceProofs`: `GovernanceInv` adds that a counted proposal has its
  time-lock set after its voting period. Theorems: `TypeCorrect`,
  `OutcomeAlwaysFits`, `NeverExecutedEarly`; `TalliesAlwaysMatch` (a vote adds one
  voter to one sum and leaves the others); `BondsLeaveOnce`, since only
  `execute_proposal` has the signature of a proposal's address, and only a passed one
  has it; and `TokensAlwaysConserved`.

**Node server.** `NodeServerProofs`: `NodeInv` is types, that a process which ended
has left nothing (`DownIsEmpty`), and `HandledOnce`. The proof looks at the three
tables of one server as values (`Orderly`), since a poll changes several of them
for several jobs. `ServersObeyMarket` is a refinement: each step of a server is an
instruction of the market or leaves it alone, late transactions included, so
`ServersKeepMarketInv` comes from the market's theorems.
`AlwaysHandledOnce`; and `AbandonedStaysForGood`, since of the instructions only
`submit_result` by the claimant moves a job in progress, and nobody sends it.

**Services** (`ServicesProofs`).

- Breaker, `BreakerInv`: the transitions of one circuit keep it sound, so every
  interleaving of callers does. `BreakerTyped`, `TripAlwaysCounted`,
  `HalfOpenAlwaysQuiet`, `LateAnswersNeverClose`. `CircuitNearsClosing`: `ToClose` counts
  the ticks, looks and successes that a circuit lacks, and only failures raise it.
- Dispatch, `DispatchInv`: types and `LoadFitsWork` node by node (`FitsAt`), and that a
  request waits for its start only while none works on it (`OneAtATime`), with lemmas on
  how beginning and ending work changes the number of works in progress and on what the
  other steps keep. `LoadAlwaysFitsWork`, for finitely many requests.
- RPC pool, `PoolInv`: a client is in at most one of queue and borrowers' hands
  (`OnePlace`) and each one of the pool's list is in one of them (`SomePlace`).
  `ClientsAlwaysAccounted`.
- Topology, `TopologyInv`: the best placement of a search is on the candidates and no
  worse than the deployed one by the score the search uses (`SearchSound`), and every
  placement given up since the last observation has a larger score than the deployed
  one, the moves not counted (`LeftIsWorse`). `PlacementsNeverThrash`, with the premise
  that weights are natural, latencies and spreads integers (`Premises`).
- Models, `RegistryInv`: a manager is filed under its model and a busy worker's manager
  is of its job's model; `ManagerForPolled` covers the fallback to the primary.
  `ServedByItsModelHolds`.
- Gateway, `RateInv`: the requests of a window's length are those the bucket has
  counted and those from before it, at most the limit of either. `RateAlwaysBounded`.
- Adapters, `Tracked`: what a method is handed in order it hands on in order, also
  to the next method and when it fails half way. `HooksAlwaysTracked`.
- Settlement, `TrackerInv` and `EarningsInv`: the batches partition what was paid and is
  not pending; the records are in the order of their ages (`Kept`), which is why it is
  enough to prune until the first young one. `MoneyAlwaysAccounted`.
- Result cache, `CacheInv`: entries in the order of last use, and a key forgotten
  although nobody removed it has `MaxSize` others used after it (`Forgotten`).
  `RecentAlwaysCached`.
- Discovery, `Living` and `LookingUp`: while a value surely lived during the whole
  lookup, a path that returned without an error has left it in the result.
  `LookupsAlwaysFind`.
- Gossip, `Flood`: the copies still to be delivered have at least the hops that the
  number of nodes which accepted leaves them, and a peer of a node that accepted has
  accepted or has such a copy coming. `FloodsAlwaysReach`, the three clauses on any
  network.
- Shard peers, `PeersInv`: in every client, replaced ones included, a closed circuit
  has no failure and a half-open one has rested (`Quiet`). `FailedPeersRest`, an
  action property. `AllListed`: what a task still wants to try are peers of the client
  it holds. `GoodPeersServe`: a task that looks up reliable peers that have recovered, or
  has one in front of it whose circuit lets it, is `Assured` of an answer until it
  has it; a circuit that lets calls through is shut by a failure only
  (`StaysUsable`), also in a client that was replaced.
- Task slots, `SlotsInv`: the tasks at work or woken have the slots that
  are not free, and while one is free and somebody waits, somebody else was woken
  (`WakesAnother`), who looks again before it goes to work. `SlotsAlwaysShared`.
  `TurnInv`: those who were woken are in front of those who were not; a step brings one
  task in, or takes one out and wakes the first who waits (`Moves`).
  `SlotsServedInTurn`: nobody who comes behind a task that waits overtakes it.
- Process, `ProcessInv`: what start has opened by each of its awaits, while no stop has
  begun. `StopsEndServing`: a node serves with all of it, and a stop that begins then
  leaves it not running until the process has ended.

**Serving** (`ServingProofs`).

- Batcher. The loops of `schedule` have a lemma each: what holds before and is kept by
  an iteration holds after. `PoolInv` (blocks held are within the pool at every
  point of `schedule`) gives `NeverOversubscribed` for every pool. `PlaceInv` adds,
  for a pool that suffices for all (`PoolSuffices`), that every sequence is in the one
  place its state names (`Placed`), holds no more than its share (`Capped`) and has
  generated what its state says (`Counted`); `Standing` is the invariant of the first
  loop. `AlwaysInOnePlace`, `AlwaysFinishesExactly`, and the action property
  `OldestAlwaysProgresses`.
- Generation. `LayersInv`: what a loaded shard holds is its slice; the slices of any
  number of layers and shards are disjoint, cover, and differ by one layer in size
  (`LayersAlwaysHeldOnce`, with the premise that discovery finds the layers the
  configuration names, `LayersFound`, which TLC checks for the models of the run).
  `RowsInv`: rows that go on have as many tokens as there were iterations (`InStep`),
  and an end is the last token of its row (`EndsWhere`). `RowsAlwaysRuns`.
- Speculation. What the draft proposes too often weighs as much as what it proposes too
  seldom (`ExcessIsMutual`), so acceptance and correction together weigh each token as
  the verifier does (`DrawnFairly`), behind every prefix the verifier produces
  (`Produced`). `AlwaysLossless`, with the premise `TopK = 0`, the default: with
  `top_k` it is false.
- Attestation, `AttestInv`: a prover has at most one proof, which it built from an output.
  `SignatureTells` says that a commitment that is handed in carries a signature over
  itself exactly if a node made both, `AnswersTell` what it takes to be settled
  (`Vouched`). `Levels` says that the same root means the same leaves, going down from
  the root, one level of the tree at a time; `ClimbsToRoot` that a path recomputes the
  root it was taken from; `RootsBind` that the root of a proof as it was built binds its
  output; `ConsensusHolds` that the vote is decided by outputs.
  `AlwaysSettledAsComputed`, for outputs of any length over any tokens, any finite set
  of provers, and any proof handed in. Hashes are free of collisions and signatures
  made by their node, by construction.
- Windows of the request batcher, `WindowsInv`: a drain splits the buffer at one place
  (`SplitKeeps`), and who sleeps does so with time left and for no longer than that.
  `BatchesHandedOut`: a job is in one batch or in the window, no batch is too large, no
  job is dropped, and nobody waits past its deadline.
- Pipeline, `StagesOK`: deadlines and attempts of a run on a shard are within their
  bounds. `Remaining` weighs the phases of a run, deadlines and attempts left included;
  `RunsTakeBoundedSteps`: it is bounded by `Longest`, and every step makes that of one run
  less and that of no other more. That a step comes is not said: a push may hang.

**KV cache** (`PagedKVCacheProofs`). `CacheInv` is types, `BlocksAccounted` and that a
sequence that is not allocated has no blocks. The lemma `Recount` says how a new table
for one sequence changes the number of users of a block; `Retable` reduces the
invariant of every action to it. `Held` says that a block with count one has one
user, which is why a write in place is seen by nobody else. `BlocksAlwaysAccounted`,
`FillAlwaysHeld`, and `CacheImplementsPrivatePages`, the refinement.

**Sums, loops and trees.** The provers have no induction over data: the library's
theorems for it take an operator as a parameter. `CollectionTheorems` uses instead
that the strict subset order on the subsets of a finite set is well founded
(`SmallestSubset`) and that a nonempty set of numbers has a least one (`LeastNumber`):
`FoldExists` and `FoldStays` for the folds of the community modules, from which the
lemmas on `SumOver` (`SumAddElement`, `SumChange`, `SumUnion`, `SumBounded`, ...) and on
sequences (`InsertAtElements`, `RemoveKeeps`, `ConcatKeeps`, ...) follow. A lemma about the body
of a fold cannot have that body as a parameter either, so the loops of the batcher
repeat one argument. No module with a theorem has a RECURSIVE operator.

**Premises.** `IsFiniteSet` of `Voter`, `Order` and, for the sums of tokens, `Account`
and `Operator`; `Nobody \notin Server`; `PoolSize`,
`MaxMade` and `MaxIterations` natural; finitely many tasks, of which some may be
cancelled, for the slots; natural bounds and `MaxBatch >= 1` for the windows
(`WindowsPremises`); `Premises`, `LayersFound` and `TopK = 0` as above. Of the
assumptions these say more than a type: the block pool, the caches and the slots of
adapters have room for at least one entry; announcements live for at least a tick;
there are more names for clients than tasks that can hold one (`PeersAssumption`), so
that a new client has a name; an output has at least one token.

Some invariants are theorems and not checked by a run of their own:
`ClaimDecides`, `ActiveIsReputable`, `DeactivationIsFinal`, `NoEarlyExecution`,
`TripIsCounted`, `HalfOpenIsQuiet`, `FillIsHeld`, `SlotsAreShared`, `HandedOutOnce`,
`JobsStay`, `DueKept`, `ComesNearer`, `AssuranceHolds`, `NobodyOvertakes`, `StopsForGood`,
`Nearer`.

**Only model-checked.** Liveness under fairness is out of the provers' reach. What each of
these properties rests on without fairness is a theorem: steps that bring it nearer,
bounds on their number, and that nothing undoes them. What stays with TLC is that the
steps are taken.

| Liveness | Its part without fairness |
|---|---|
| `PendingResolves` | `DueStaysDue`, `ServersObeyMarket` |
| `Recovers` | `CircuitNearsClosing` |
| `OnePeerSuffices` | `GoodPeersServe`, `FailedPeersRest` |
| `WaitersGetSlots` | `SlotsAlwaysShared`, `SlotsServedInTurn` |
| `SignalEndsServing` | `StopsEndServing` |
| `EveryJobIsBatched` | `BatchesHandedOut` |
| `InferenceEnds` | `RunsTakeBoundedSteps` |

`ExactlyOneWayOn` speaks of ENABLED; `OneIsAlwaysReady` says the same of the guards, and
that an instruction goes through exactly with its guard. The properties of the runs that
expect a violation are false.

## 5. Where code and documentation disagree

Shown by a run:

- `batcher_lost`: `schedule` replaces the queue after its first loop and drops
  what `_preempt` put there; `continuous_batcher.py:428` says the sequence returns
  to the queue.
- `governance_bond`: `create_proposal` accepts a bond account the proposal does
  not own (as `tests/governance.ts:107-112` passes), and `execute_proposal` can
  then never run, against `governance/src/lib.rs:198`.
- `node_unsettled`: `auto_settle_expired_jobs` passes one of five accounts and
  swallows the failure, against `server.py:149`.
- `gateway_mint`: `paysh_webhook` schedules a mint for every delivery, whatever
  the status (`api_gateway.py:414`), and `process_webhook` has already scheduled
  one for a completed payment, against `api_gateway.py:641`.
- `adapter_unload`: `unload` of the active adapter forgets its hooks without
  removing them (`adapter_manager.py:180`), against its docstring (`:165`).

Met while modelling, kept in the models as the code has them:

- Token accounts: the programs do not tie the accounts they move tokens between to the
  job, the stake or the proposal (market `lib.rs:438-443`, `:461-465`, `:474-476`;
  registry `:320-323`, `:339-342`, `:359-362`; governance `:326-329`, `:371-374`), so
  what is on record as paid, refunded, staked or bonded and what has moved may differ.
- Market: the challenge window runs from the claim (`lib.rs:215`), line 9 speaks
  of five minutes to dispute a result; line 33 speaks of an automatic refund,
  which nothing sends.
- Registry: a slash during the cooldown makes a full withdrawal fail until a new
  request (`lib.rs:145`); the minimum is checked at the request only (`:159`); a
  node account is never closed, so nobody can register again (`:288`, against
  `blockchain.py:183`).
- Governance: the 60% are rounded down to a whole vote (`lib.rs:176`); the bond of
  a failed proposal is not burned (`:184`, against line 14).
- Batcher: a victim of the second loop gets blocks again while it waits (`:316`);
  a sequence that is queued twice can get more tokens than it asked for (`:433`).
- Node: the status filter (`blockchain.py:110`), the cleaner
  (`resource_manager.py:296`), the ties in the queue (`server.py:174`).
- Process: a stop during start is undone when start goes on to set `_running`
  (`server.py:115`); a receiver that stop dropped while it started stays open.
- Pipeline: the timeout of a push (`server.py:508`) does not bound it: it cancels `send`,
  whose `wait_closed()` (`activation_stream.py:242`) ends only when the peer reads or
  goes, and until then there is neither a retry nor an error. Only the claimant's node
  runs `_run_inference`, so on several shards the others never take part; a frame pushed before the next shard calls `receive`
  is dropped without a word; a node announces itself before its receiver listens;
  the fallback address, meant to be "same host, adjacent port", adds the index of
  the next shard to the node's own port (`server.py:410-412`).
- DHT: the announcement is made once for 600 seconds and never renewed, a later
  node of a shard hides an earlier one, and stop withdraws nothing.
- Models: concurrent or repeated loads of one model load twice, against "If the
  model is already loaded, this is a no-op" (`model_registry.py:30`); the primary
  is loaded twice; a load in flight undoes an unload; the job loop polls for
  `config.model_name` only, so other supported models are never served, against
  line 19.
- Balancer: a node's load is off for good by every update that came while it was not
  registered, because `register` takes the object as it is (`shard_balancer.py:43-44`)
  and `update_load` ignores unknown nodes (`:87-91`).
- Verification: the job, the root, the token count and the node of a proof are not
  signed, and neither `verify_proof` (`verification_pipeline.py:195-211`) nor
  `should_settle` (`:330-349`) compares them with the commitment; a settlement rests on
  the commitment's signature and prompt, and binds tokens by the proof's own root.
- Peers: `PeerManager.tick` reports a peer as newly dead when its count is exactly
  at the limit, which `RemoteShardClient` may step over.
- RPC pool: `close` drains the queue "so any waiters unblock" (`rpc_pool.py:123`);
  they wait on until their timeout.
- Task runner: a task cancelled while it waits for its slot stays PENDING.
- Speculation: with `top_k` the output is not that of the verifier, and tokens
  behind an accepted end are kept. Generation: after the first token only the last
  token goes through the layers, padding on the left has no mask, and GPT-2's final
  norm is not found.
- Gateway: the client is built with arguments its class does not accept
  (`api_gateway.py:56`), so completions answer 500; `_mint_tokens` re-raises
  nothing, against the comment at `:684`, and a mint that was skipped still counts.

Met outside the models:

- Chain client: `withdraw` (`blockchain.py:411`) is not an instruction of the market;
  the seeds of a vote record are in another order and hold the id instead of the
  address (`:536`, against `governance/src/lib.rs:346`); `register_node` names only
  the operator's account (`:193`).
- Python client: it posts to `/v1/jobs` (`client/python/client.py:128`), which the
  gateway does not have.
- TypeScript client: `postJob` passes five arguments where `post_job` takes six,
  waits 120 seconds for a completion that needs its own accept or a settlement at
  least 300 seconds after the claim, `acceptResult` and `finalize` name too few
  accounts, and the placeholder for SHA-256 returns zeros.
- Deployment: `deploy_network.py` evaluates `bootstrap_peers` for every shard
  before any instance exists, so all get an empty list, against line 21; all
  shards rent the first offer; instances of shards that time out stay rented.
- Webhooks: `max_retries` counts all attempts, and the 4 seconds of the docstring are
  never slept (`webhooks.py:46`). Token streams have no producer.

## 6. Not modelled

- Monitoring (metrics, health, audit log, statistics): counters and formatting; the
  audit log is a hash chain that nothing appends to but tests.
- Configuration, storage and encryption: I/O, parsing, cryptography.
- Python and TypeScript clients: the models let any wallet call any instruction at
  any time, which is more than either does.
- Deployment scripts, integrations, fine-tuning: command lines that run once and
  call remote services.
- `scheduler.py` (a weighted sort without state), `model_manager.py` (downloads and
  memory estimates), `economics.py` (floating point without state), `token_ops.py`
  (calls of the token program), `TimeoutEstimator` (a percentile), `rate_limiter.py`,
  webhooks, API keys, validators, token streams, `verifier.py` and `integrity.py`
  (format checks): nothing but tests uses most of them.
- In modelled components: `update_endpoint`, the node count and descriptions of the
  registry; `verify_node_id`, `detect_eclipse`, `health_check_peer` and the sorting
  of siblings in `p2p.py`; endpoint updates of the heartbeat and the result of the
  registration in the node; the governance, earnings and wallet calls of the chain
  client. In `NodeServer` the pipeline between shards is one step that returns or
  raises; `Pipeline` has its inside.

## 7. Plan

Done: the three programs with their proofs; the node server on the market, its
process, its pipeline and its models; what it reaches its peers and the chain with;
what it serves a model with; the gateway. Every safety invariant and action property of
the passing runs is a theorem but `ExactlyOneWayOn`, and so is what each liveness property
rests on. Next, in this order:

1. `NodeServer` with `Lifecycle` instead of `Halt`, so that a stop has the order of the
   code's, and with `Pipeline` for a job on several shards.
2. Refinements between the two levels that this gives: the inference step of
   `NodeServer` by a run of `Pipeline`, its crash by the stop of `Lifecycle`.
