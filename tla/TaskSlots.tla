------------------------------- MODULE TaskSlots -------------------------------
(***************************************************************************)
(* Tasks that share a bounded number of slots: TaskRunner                    *)
(* (node/task_runner.py), which waits for an asyncio.Semaphore, and           *)
(* BackoffSemaphore (node/resource_manager.py), which first looks at it a few   *)
(* times and sleeps in between.  The semaphore is the one of Python 3.11: a     *)
(* release hands its slot to the first waiter, who goes on later, and nobody     *)
(* overtakes those who wait.  Only their tests call them, so tasks come back at   *)
(* any time; what a task computes and how it ends is left out.                     *)
(***************************************************************************)
EXTENDS Naturals, FiniteSets, SequencesExt

CONSTANTS
    Task,
    Cancellable,  \* the tasks that may be cancelled
    Slots,        \* max_concurrency, value
    MaxAttempts   \* BackoffConfig.max_attempts

VARIABLES
    backoff,   \* whether a BackoffSemaphore stands in front of the semaphore
    free,      \* _value of the semaphore
    waiters,   \* _waiters: the tasks in acquire, some of which have been woken
    phase,     \* where each task is
    attempts   \* how often a task has looked at the semaphore in vain

slotsVars == <<backoff, free, waiters, phase, attempts>>

SlotsInit ==
    /\ backoff \in BOOLEAN
    /\ free = Slots
    /\ waiters = <<>>
    /\ phase = [t \in Task |-> "out"]
    /\ attempts = [t \in Task |-> 0]

-----------------------------------------------------------------------------
(* asyncio.Semaphore. *)

\* acquire: behind all who wait or were woken, even if a slot is free.
Acquire(t) ==
    IF free = 0 \/ waiters # <<>>
    THEN /\ phase' = [phase EXCEPT ![t] = "queued"]
         /\ waiters' = Append(waiters, t)
         /\ UNCHANGED free
    ELSE /\ phase' = [phase EXCEPT ![t] = "using"]
         /\ free' = free - 1
         /\ UNCHANGED waiters

\* Task t leaves for the phase next, with value slots free: the first waiter that
\* has not been woken yet gets one of them.
WakeNext(t, next, value) ==
    LET asleep == {i \in DOMAIN waiters : waiters[i] # t /\ phase[waiters[i]] = "queued"}
    IN IF value = 0 \/ asleep = {}
       THEN phase' = [phase EXCEPT ![t] = next] /\ free' = value
       ELSE /\ phase' = [phase EXCEPT ![t] = next, ![waiters[Min(asleep)]] = "woken"]
            /\ free' = value - 1

\* The rest of acquire: another slot may have become free in the meantime.
Resume(t) ==
    /\ phase[t] = "woken"
    /\ waiters' = RemoveFirst(waiters, t)
    /\ WakeNext(t, "using", free)
    /\ UNCHANGED <<backoff, attempts>>

-----------------------------------------------------------------------------
\* A defective variant of the next definition, which no specification uses.
AttemptForEver_Bad(t) ==
    IF backoff /\ free = 0
    THEN /\ phase' = [phase EXCEPT ![t] = "asleep"]
         /\ UNCHANGED <<free, waiters, attempts>>
    ELSE Acquire(t) /\ attempts' = [attempts EXCEPT ![t] = 0]

\* BackoffSemaphore.acquire sleeps while no slot is free, but not for ever; the
\* task runner acquires at once.
Attempt(t) ==
    IF backoff /\ attempts[t] < MaxAttempts /\ free = 0
    THEN /\ phase' = [phase EXCEPT ![t] = "asleep"]
         /\ attempts' = [attempts EXCEPT ![t] = @ + 1]
         /\ UNCHANGED <<free, waiters>>
    ELSE Acquire(t) /\ attempts' = [attempts EXCEPT ![t] = 0]

\* submit, or __aenter__.
Submit(t) == phase[t] = "out" /\ Attempt(t) /\ UNCHANGED backoff

WakeUp(t) == phase[t] = "asleep" /\ Attempt(t) /\ UNCHANGED backoff

\* The task is done, fails or is cancelled at work: the semaphore is released.
Finish(t) ==
    /\ phase[t] = "using"
    /\ WakeNext(t, "out", free + 1)
    /\ UNCHANGED <<backoff, waiters, attempts>>

\* A task is cancelled while it waits; one that was woken gives its slot back.
Cancel(t) ==
    /\ \/ phase[t] \in {"asleep", "queued"} /\ phase' = [phase EXCEPT ![t] = "out"] /\ UNCHANGED free
       \/ phase[t] = "woken" /\ WakeNext(t, "out", free + 1)
    /\ waiters' = RemoveFirst(waiters, t)
    /\ attempts' = [attempts EXCEPT ![t] = 0]
    /\ UNCHANGED backoff

Proceed(t) == Resume(t) \/ WakeUp(t) \/ Finish(t)

SlotsNext ==
    \/ \E t \in Task : Submit(t) \/ Proceed(t)
    \/ \E t \in Cancellable : Cancel(t)

\* Sleepers and those who were woken go on, and every task ends.
SlotsSpec ==
    /\ SlotsInit /\ [][SlotsNext]_slotsVars
    /\ \A t \in Task : WF_slotsVars(Proceed(t))

-----------------------------------------------------------------------------
(* Properties. *)

\* No more tasks are at work than there are slots, and no slot stays free beside a task
\* that waits for one, unless somebody was woken, who passes it on: whoever is
\* cancelled, and between a wake-up and the turn of the task that was woken.
SlotsAreShared ==
    /\ Cardinality({t \in Task : phase[t] = "using"}) <= Slots
    /\ free > 0 /\ (\E t \in Task : phase[t] = "queued") => \E t \in Task : phase[t] = "woken"

\* A task that waits for a slot gets one, however often others come back, are
\* cancelled while they wait or after they were woken, and whoever holds a slot
\* each time it looks (resource_manager.py:95): no wake-up is lost, nobody starves.
WaitersGetSlots ==
    \A t \in Task \ Cancellable : phase[t] \in {"asleep", "queued", "woken"} ~> phase[t] = "using"
=============================================================================
