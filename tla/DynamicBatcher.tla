---------------------------- MODULE DynamicBatcher ----------------------------
(***************************************************************************)
(* The request batcher (node/batcher.py) for one model, which its consumers *)
(* share: jobs gather in a window, until it is full or old enough.          *)
(*                                                                         *)
(* A consumer that has looked waits for the event of the window it saw.  A  *)
(* window that is drained takes its event with it; who still waits for that *)
(* one hears nothing of the jobs of the next window.                        *)
(***************************************************************************)
EXTENDS Naturals, Sequences, TLC, SequencesExt

CONSTANTS
    Request,      \* the jobs
    Consumer,     \* the tasks that call next_batch
    MaxBatch,     \* max_batch_size
    MaxWait,      \* max_wait_ms, in ticks
    Patience      \* timeout_s of next_batch, in ticks

VARIABLES
    window,    \* the buffer of the model and the ticks since its window began, if there is one
    asking,    \* what each consumer does
    batches    \* the batches handed out

batchVars == <<window, asking, batches>>

NoWindow == [open |-> FALSE, jobs |-> <<>>, age |-> 0]
\* left: ticks to the deadline; wait: ticks it still waits for the event;
\* current: whether that event is the one of the window
Away == [phase |-> "away", left |-> 0, wait |-> 0, current |-> FALSE]
Looking(left) == [Away EXCEPT !.phase = "looking", !.left = left]

BatcherInit == window = NoWindow /\ asking = [c \in Consumer |-> Away] /\ batches = <<>>

Opened == IF window.open THEN window ELSE [NoWindow EXCEPT !.open = TRUE]

\* add_job, under the lock: it wakes those who wait for the event of the window.
AddJob(r) ==
    /\ r \notin ToSet(window.jobs) \union UNION {ToSet(batches[i]) : i \in DOMAIN batches}
    /\ window' = [Opened EXCEPT !.jobs = Append(@, r)]
    /\ asking' = [c \in Consumer |-> IF asking[c].phase = "waiting" /\ asking[c].current
                                     THEN Looking(asking[c].left) ELSE asking[c]]
    /\ UNCHANGED batches

NextBatch(c) ==
    /\ asking[c].phase = "away"
    /\ asking' = [asking EXCEPT ![c] = Looking(Patience)]
    /\ UNCHANGED <<window, batches>>

\* A defective variant of the next definition, which no specification uses.
DrainDropsRest_Bad(c) ==
    LET n == IF Len(window.jobs) < MaxBatch THEN Len(window.jobs) ELSE MaxBatch
    IN /\ batches' = Append(batches, SubSeq(window.jobs, 1, n))
       /\ window' = NoWindow
       /\ asking' = [o \in Consumer |-> IF o = c THEN Away ELSE [asking[o] EXCEPT !.current = FALSE]]

\* _drain: what is too much for one batch stays and begins a new window.
Drain(c) ==
    LET n == IF Len(window.jobs) < MaxBatch THEN Len(window.jobs) ELSE MaxBatch
        rest == SubSeq(window.jobs, n + 1, Len(window.jobs))
    IN /\ batches' = Append(batches, SubSeq(window.jobs, 1, n))
       /\ window' = IF rest = <<>> THEN NoWindow ELSE [open |-> TRUE, jobs |-> rest, age |-> 0]
       /\ asking' = [o \in Consumer |->
                       IF o = c THEN Away
                       ELSE IF rest = <<>> THEN [asking[o] EXCEPT !.current = FALSE] ELSE asking[o]]

Ready == window.jobs # <<>> /\ (Len(window.jobs) >= MaxBatch \/ window.age >= MaxWait)

\* One turn of the loop of next_batch: at the deadline it takes what is there.
TakeBatch(c) ==
    /\ asking[c].phase = "looking"
    /\ window.jobs # <<>>
    /\ Ready \/ asking[c].left = 0
    /\ Drain(c)

LeaveEmpty(c) ==
    /\ asking[c].phase = "looking" /\ asking[c].left = 0
    /\ window.jobs = <<>>
    /\ asking' = [asking EXCEPT ![c] = Away]
    /\ UNCHANGED <<window, batches>>

\* Not ready: it opens the window and waits for a job, or for the end of the window.
WaitForJob(c) ==
    LET left == asking[c].left
        rest == MaxWait - window.age
    IN /\ asking[c].phase = "looking" /\ left > 0
       /\ ~ Ready
       /\ window' = Opened
       /\ asking' = [asking EXCEPT ![c].phase = "waiting", ![c].current = TRUE,
                        ![c].wait = IF window.jobs # <<>> /\ rest < left THEN rest ELSE left]
       /\ UNCHANGED batches

\* A tick; it wakes those whose wait is over.
BatcherTick ==
    /\ window' = IF window.open /\ window.age < MaxWait THEN [window EXCEPT !.age = @ + 1] ELSE window
    /\ asking' = [c \in Consumer |->
                    LET a == [asking[c] EXCEPT !.left = IF @ = 0 THEN 0 ELSE @ - 1]
                    IN IF a.phase # "waiting" THEN a
                       ELSE IF a.wait = 1 THEN Looking(a.left) ELSE [a EXCEPT !.wait = @ - 1]]
    /\ UNCHANGED batches

Turn(c) == NextBatch(c) \/ TakeBatch(c) \/ LeaveEmpty(c) \/ WaitForJob(c)

BatcherNext ==
    \/ \E r \in Request : AddJob(r)
    \/ \E c \in Consumer : NextBatch(c) \/ TakeBatch(c) \/ LeaveEmpty(c) \/ WaitForJob(c)
    \/ BatcherTick

-----------------------------------------------------------------------------
(* Properties. *)

\* A batch has jobs, no more than allowed, and a job is in one batch or in the window
\* and in no other, whichever consumers come in between (_drain); and a consumer that
\* waits, also for an event that nobody sets any more, wakes up by its deadline.
HandedOutOnce ==
    /\ \A i \in DOMAIN batches :
          /\ Len(batches[i]) \in 1 .. MaxBatch
          /\ ToSet(batches[i]) \intersect ToSet(window.jobs) = {}
          /\ \A k \in DOMAIN batches \ {i} : ToSet(batches[i]) \intersect ToSet(batches[k]) = {}
    /\ \A c \in Consumer : asking[c].phase = "waiting" => asking[c].wait \in 1 .. asking[c].left

Known == ToSet(window.jobs) \union UNION {ToSet(batches[i]) : i \in DOMAIN batches}

\* A job that was added stays in the window until it is handed out, also when its
\* window is drained and more than a batch was in it.
JobsStay == [][Known \subseteq Known']_batchVars

\* Every job that was added is handed out, though the consumer that should have
\* heard of it waits for an event nobody sets any more.
EveryJobIsBatched ==
    \A r \in Request : r \in ToSet(window.jobs) ~> \E i \in DOMAIN batches : r \in ToSet(batches[i])
=============================================================================
