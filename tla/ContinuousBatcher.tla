--------------------------- MODULE ContinuousBatcher ---------------------------
(***************************************************************************)
(* The continuous batching scheduler (node/continuous_batcher.py) and the   *)
(* pool of KV-cache blocks it schedules on.                                *)
(*                                                                         *)
(* One driver alternates schedule and step; requests arrive between them.   *)
(* schedule is one action: its loops over the waiting queue and over a copy *)
(* of the running table are folds that carry the scheduler's tables, since  *)
(* each iteration may preempt sequences that later iterations look at.      *)
(* Blocks are interchangeable, so the pool is the number each sequence has. *)
(***************************************************************************)
EXTENDS Integers, FiniteSetsExt, SequencesExt, TLC

CONSTANTS
    Request,          \* the sequences that are requested
    Prompt,           \* num_prompt_tokens of each
    MaxTokens,        \* max_tokens of each
    Priority,         \* priority of each
    Arrival,          \* arrival_time of each
    BlockSize,        \* tokens a block holds
    Engines           \* the sizes a batcher may be made with

ASSUME BatcherAssumption ==
    /\ IsFiniteSet(Request)
    /\ \A f \in {Prompt, Priority, Arrival} : f \in [Request -> Nat]
    /\ MaxTokens \in [Request -> Nat \ {0}]
    /\ \A s, r \in Request : s # r => Arrival[s] # Arrival[r]
    /\ BlockSize \in Nat \ {0}
    /\ Engines \subseteq [numBlocks : Nat \ {0}, maxBatchSize : Nat \ {0},
                         maxTokensPerStep : Nat \ {0}]

VARIABLES
    engine,      \* the sizes this batcher was made with
    waiting,     \* _waiting
    running,     \* the keys of _running, in the order of the table
    blocks,      \* the number of blocks allocated to each sequence
    state,       \* seq.state; "new" before add_request
    generated,   \* num_generated_tokens of each sequence
    finished,    \* _finished
    drained,     \* what get_finished has returned
    batch,       \* the batch schedule returned, until step takes it
    pc           \* what the driver calls next

vars == <<engine, waiting, running, blocks, state, generated, finished, drained, batch, pc>>

-----------------------------------------------------------------------------
\* The names that end in _Bad are defective variants of the definition that
\* follows them; no specification uses them.  Each breaks one property below,
\* which shows that the property says something about the code.

Init ==
    /\ engine \in Engines
    /\ waiting = <<>>
    /\ running = <<>>
    /\ blocks = [s \in Request |-> 0]
    /\ state = [s \in Request |-> "new"]
    /\ generated = [s \in Request |-> 0]
    /\ finished = <<>>
    /\ drained = <<>>
    /\ batch = <<>>
    /\ pc = "schedule"

TotalTokens(s) == Prompt[s] + generated[s]
BlocksNeeded(tokens) == (tokens + BlockSize - 1) \div BlockSize
NextNeeds(s) == BlocksNeeded(TotalTokens(s) + 1)

\* FCFS; arrival times are distinct, so the priority never breaks a tie.
Earlier == {p \in Request \X Request : Arrival[p[1]] < Arrival[p[2]]}

\* The running sequences that are preempted before others.
PreemptedBefore ==
    {p \in Request \X Request : \/ Priority[p[1]] < Priority[p[2]]
                                \/ Priority[p[1]] = Priority[p[2]] /\ <<p[2], p[1]>> \in Earlier}

\* sorted: s goes behind all that it does not come before.
Insert(seq, s, before) ==
    InsertAt(seq, 1 + Cardinality({i \in DOMAIN seq : <<s, seq[i]>> \notin before}), s)
Sorted(seq, before) == FoldLeft(LAMBDA a, s : Insert(a, s, before), <<>>, seq)

\* The loops of schedule and step carry the tables waiting, running, blocks and
\* state in one record.
FreeBlocks(t) ==
    LET allocated == t.blocks
    IN engine.numBlocks - MapThenSumSet(LAMBDA s : allocated[s], Request)

\* BlockTable.ensure_capacity, when the blocks are there.
Grow(t, s, total) == [t EXCEPT !.blocks[s] = Max({@, total})]

\* _preempt: the sequence gives up its blocks and goes to the front of the queue.
Preempt(t, s) ==
    [t EXCEPT !.blocks[s] = 0,
              !.running = RemoveFirst(@, s),
              !.waiting = <<s>> \o @,
              !.state[s] = "WAITING"]

Victims(t, keep) == Sorted(SetToSeq(ToSet(t.running) \ keep), PreemptedBefore)

\* One iteration of _preempt_to_free: it counts only the blocks it frees, not those
\* already free.
PreemptOne(target, a, s) ==
    IF a.freed >= target THEN a
    ELSE [tables |-> Preempt(a.tables, s), freed |-> a.freed + a.tables.blocks[s]]

PreemptToFree(t, target, keep) ==
    FoldLeft(LAMBDA a, s : PreemptOne(target, a, s), [tables |-> t, freed |-> 0],
             Victims(t, keep))

\* One iteration of schedule's first loop: a sequence of the queue is admitted,
\* if need be after preemptions, or goes on waiting.  It raises when s was
\* itself among the preempted and the pool is too small for all of it.
Admit(a, s) ==
    LET extra == Max({0, NextNeeds(s) - a.tables.blocks[s]})
        freeing == IF extra > FreeBlocks(a.tables)
                   THEN PreemptToFree(a.tables, extra, {})
                   ELSE [tables |-> a.tables, freed |-> extra]
        t == freeing.tables
        missing == NextNeeds(s) - t.blocks[s]
    IN CASE a.raised -> a
         [] ~a.raised /\ Len(a.tables.running) + Len(a.admitted) >= engine.maxBatchSize ->
              [a EXCEPT !.left = Append(@, s)]
         [] ~a.raised /\ Len(a.tables.running) + Len(a.admitted) < engine.maxBatchSize ->
              IF freeing.freed < extra
              THEN [a EXCEPT !.tables = t, !.left = Append(@, s)]
              ELSE IF missing > FreeBlocks(t)
              THEN [a EXCEPT !.tables = t, !.raised = TRUE]
              ELSE [a EXCEPT !.tables = [Grow(t, s, NextNeeds(s)) EXCEPT !.state[s] = "RUNNING"],
                             !.admitted = Append(@, s)]

AdmitAll(t) ==
    FoldLeft(Admit, [tables |-> t, admitted |-> <<>>, left |-> <<>>, raised |-> FALSE],
             Sorted(t.waiting, Earlier))

\* _running is a table: a sequence that is in it already keeps its place.
Register(run, s) == IF Contains(run, s) THEN run ELSE Append(run, s)

ExtendUnchecked_Bad(t, s) == Grow(t, s, NextNeeds(s))

\* One iteration of schedule's second loop: blocks for the next token of s.
Extend(t, s) ==
    LET extra == NextNeeds(s) - t.blocks[s]
        freeing == PreemptToFree(t, extra, {s})
    IN IF extra <= 0 THEN t
       ELSE IF extra <= FreeBlocks(t) THEN Grow(t, s, NextNeeds(s))
       ELSE IF freeing.freed < extra THEN Preempt(freeing.tables, s)
       ELSE Grow(freeing.tables, s, NextNeeds(s))

\* The second loop runs over a copy of the table of running sequences.
ExtendAll(t) == FoldLeft(Extend, t, t.running)

BatchUnsorted_Bad(t) ==
    SubSeq(t.running, 1, Min({Len(t.running), engine.maxTokensPerStep}))

\* The batch: one token for each of the earliest running sequences.
Batch(t) ==
    LET sorted == Sorted(t.running, Earlier)
    IN SubSeq(sorted, 1, Min({Len(sorted), engine.maxTokensPerStep}))

SetTables(t) ==
    /\ waiting' = t.waiting
    /\ running' = t.running
    /\ blocks' = t.blocks
    /\ state' = t.state

-----------------------------------------------------------------------------
\* add_request
AddRequest(s) ==
    /\ state[s] = "new"
    /\ state' = [state EXCEPT ![s] = "WAITING"]
    /\ waiting' = Append(waiting, s)
    /\ UNCHANGED <<engine, running, blocks, generated, finished, drained, batch, pc>>

\* schedule: the queue is replaced by what the first loop left of it.
Schedule ==
    /\ pc = "schedule"
    /\ \E a \in {AdmitAll([waiting |-> waiting, running |-> running,
                            blocks |-> blocks, state |-> state])} :
          IF a.raised
          THEN SetTables(a.tables) /\ UNCHANGED <<batch, pc>>
          ELSE \E t \in {ExtendAll([a.tables EXCEPT
                                !.waiting = a.left,
                                !.running = FoldLeft(Register, @, a.admitted)])} :
                  SetTables(t) /\ batch' = Batch(t) /\ pc' = "step"
    /\ UNCHANGED <<engine, generated, finished, drained>>

GenerateKeepsRunning_Bad(a, s) ==
    LET gen == [a.generated EXCEPT ![s] = @ + 1]
    IN IF gen[s] < MaxTokens[s] THEN [a EXCEPT !.generated = gen]
       ELSE [a EXCEPT !.generated = gen,
                      !.tables = [@ EXCEPT !.state[s] = "FINISHED", !.blocks[s] = 0],
                      !.finished = Append(@, s)]

GenerateOneMore_Bad(a, s) ==
    LET gen == [a.generated EXCEPT ![s] = @ + 1]
    IN IF gen[s] <= MaxTokens[s] THEN [a EXCEPT !.generated = gen]
       ELSE [a EXCEPT !.generated = gen,
                      !.tables = [@ EXCEPT !.state[s] = "FINISHED", !.blocks[s] = 0,
                                           !.running = RemoveFirst(@, s)],
                      !.finished = Append(@, s)]

\* step, for one sequence of the batch: a token, its block if there is one, and
\* the end of the sequence when the token was its last.
Generate(a, s) ==
    LET gen == [a.generated EXCEPT ![s] = @ + 1]
        need == BlocksNeeded(Prompt[s] + gen[s])
        grown == IF need - a.tables.blocks[s] <= FreeBlocks(a.tables)
                 THEN Grow(a.tables, s, need) ELSE a.tables
    IN IF a.tables.state[s] # "RUNNING" THEN a
       ELSE IF gen[s] < MaxTokens[s] THEN [a EXCEPT !.generated = gen, !.tables = grown]
       ELSE [a EXCEPT !.generated = gen,
                      !.tables = [a.tables EXCEPT !.state[s] = "FINISHED",
                                                  !.blocks[s] = 0,
                                                  !.running = RemoveFirst(@, s)],
                      !.finished = Append(@, s)]

\* step, with a token for every sequence of the batch.
Step ==
    /\ pc = "step"
    /\ \E a \in {FoldLeft(Generate,
                    [tables |-> [waiting |-> waiting, running |-> running,
                                 blocks |-> blocks, state |-> state],
                     generated |-> generated, finished |-> finished], batch)} :
          /\ SetTables(a.tables)
          /\ generated' = a.generated
          /\ finished' = a.finished
    /\ batch' = <<>>
    /\ pc' = "schedule"
    /\ UNCHANGED <<engine, drained>>

\* get_finished
GetFinished ==
    /\ finished # <<>>
    /\ drained' = drained \o finished
    /\ finished' = <<>>
    /\ UNCHANGED <<engine, waiting, running, blocks, state, generated, batch, pc>>

Next ==
    \/ \E s \in Request : AddRequest(s)
    \/ Schedule
    \/ Step
    \/ GetFinished

Spec == Init /\ [][Next]_vars

-----------------------------------------------------------------------------
(* Properties.  The first two hold however small the pool is. *)

\* No order of admissions, extensions and preemptions, and no MemoryError that
\* cuts schedule short, hands out more blocks than the pool has.
PoolNotOversubscribed == MapThenSumSet(LAMBDA s : blocks[s], Request) <= engine.numBlocks

(* The next ones hold in a pool that is large enough for every sequence. *)

\* The blocks for all the tokens of each sequence.
Shares == [s \in Request |-> BlocksNeeded(Prompt[s] + MaxTokens[s])]

PoolSuffices == MapThenSumSet(LAMBDA s : Shares[s], Request) <= engine.numBlocks

\* A sequence is queued, running or finished, exactly one of these and once, as
\* its state says.
InOnePlace ==
    PoolSuffices =>
        /\ IsInjective(waiting \o running \o finished \o drained)
        /\ \A s \in Request :
              /\ state[s] = "WAITING" <=> Contains(waiting, s)
              /\ state[s] = "RUNNING" <=> Contains(running, s)
              /\ state[s] = "FINISHED" <=> Contains(finished \o drained, s)

\* A sequence ends with exactly the tokens it asked for, and none before it.
FinishesExactly ==
    PoolSuffices =>
        \A s \in Request :
            IF state[s] = "FINISHED" THEN generated[s] = MaxTokens[s]
                                     ELSE generated[s] < MaxTokens[s]

\* No starvation, however small the batch and its budget: each batch has a token
\* for the oldest sequence that runs, and one runs whenever any waits, so every
\* request completes after finitely many rounds.
OldestProgresses ==
    [][PoolSuffices /\ pc = "schedule" /\ pc' = "step" =>
          /\ waiting \o running # <<>> => running' # <<>>
          /\ \A s \in ToSet(running') :
                (\A r \in ToSet(running') : Arrival[s] <= Arrival[r]) => s \in ToSet(batch')]_vars

(* What the code says of preemption and does not do when the pool is small. *)

\* continuous_batcher.py line 428, "release blocks and return it to the WAITING
\* queue": a preempted sequence is in the queue or runs again.
NothingLost ==
    \A s \in Request :
        state[s] \in {"WAITING", "RUNNING"} => Contains(waiting, s) \/ Contains(running, s)

=============================================================================
