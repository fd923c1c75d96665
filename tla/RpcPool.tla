-------------------------------- MODULE RpcPool --------------------------------
(***************************************************************************)
(* The pool of RPC clients (node/rpc_pool.py): callers wait for a client    *)
(* with a timeout and give it back; the pool is closed, one client at a     *)
(* time, and may be started again while some clients are still out.         *)
(***************************************************************************)
EXTENDS Naturals, FiniteSets, Sequences, SequencesExt

CONSTANTS
    Borrower,       \* the tasks that use the pool
    PoolSize,       \* _size
    MaxMade,        \* bound: clients made over all starts
    ReplaceAfter    \* max_failures_before_replace, and where counting stops

VARIABLES
    clients,   \* _clients; a client is named by its number
    idle,      \* _queue
    closing,   \* how many of the clients a running close() has closed
    made,      \* clients made so far
    failed,    \* consecutive_failures of the clients in _stats
    borrower   \* [phase, client] of each task: out, waiting or using its client

poolVars == <<clients, idle, closing, made, failed, borrower>>

NoStats == [c \in {} |-> 0]
At(phase, c) == [phase |-> phase, client |-> c]

PoolInit ==
    /\ clients = <<>> /\ idle = <<>> /\ closing = 0 /\ made = 0 /\ failed = NoStats
    /\ borrower = [b \in Borrower |-> At("out", 0)]

StartPool ==
    /\ clients = <<>>
    /\ made + PoolSize <= MaxMade
    /\ clients' = [i \in 1 .. PoolSize |-> made + i]
    /\ idle' = idle \o clients'
    /\ made' = made + PoolSize
    /\ failed' = [c \in ToSet(clients') |-> 0]
    /\ UNCHANGED <<closing, borrower>>

\* acquire takes a client that is there, or waits for one.
Acquire(b) ==
    /\ borrower[b].phase = "out"
    /\ borrower' = [borrower EXCEPT ![b] = At("waiting", 0)]
    /\ UNCHANGED <<clients, idle, closing, made, failed>>

Obtain(b) ==
    /\ borrower[b].phase = "waiting"
    /\ idle # <<>>
    /\ borrower' = [borrower EXCEPT ![b] = At("using", Head(idle))]
    /\ idle' = Tail(idle)
    /\ UNCHANGED <<clients, closing, made, failed>>

\* A defective variant of the next definition, which no specification uses.
GiveUpTakes_Bad(b) ==
    /\ borrower[b].phase = "waiting"
    /\ borrower' = [borrower EXCEPT ![b] = At("out", 0)]
    /\ idle' = IF idle = <<>> THEN idle ELSE Tail(idle)
    /\ UNCHANGED <<clients, closing, made, failed>>

\* No client came within timeout_s.
GiveUp(b) ==
    /\ borrower[b].phase = "waiting"
    /\ borrower' = [borrower EXCEPT ![b] = At("out", 0)]
    /\ UNCHANGED <<clients, idle, closing, made, failed>>

\* The end of the block, normal or not: the client goes back, even to a pool that
\* was closed in the meantime.
GiveBack(b) ==
    /\ borrower[b].phase = "using"
    /\ idle' = Append(idle, borrower[b].client)
    /\ borrower' = [borrower EXCEPT ![b] = At("out", 0)]
    /\ UNCHANGED <<clients, closing, made, failed>>

\* mark_failed and mark_success; a client without stats is ignored.
Mark(b, ok) ==
    LET c == borrower[b].client
    IN /\ c \in DOMAIN failed
       /\ failed' = [failed EXCEPT ![c] = IF ok THEN 0 ELSE IF @ < ReplaceAfter THEN @ + 1 ELSE @]
       /\ UNCHANGED <<clients, idle, closing, made, borrower>>

\* close() awaits the end of each client; then it forgets them and drains the queue.
CloseClient ==
    /\ closing < Len(clients)
    /\ closing' = closing + 1
    /\ UNCHANGED <<clients, idle, made, failed, borrower>>

CloseEnds ==
    /\ closing = Len(clients)
    /\ clients' = <<>> /\ idle' = <<>> /\ closing' = 0 /\ failed' = NoStats
    /\ UNCHANGED <<made, borrower>>

PoolNext ==
    \/ StartPool \/ CloseClient \/ CloseEnds
    \/ \E b \in Borrower : Acquire(b) \/ Obtain(b) \/ GiveUp(b) \/ GiveBack(b)
    \/ \E b \in Borrower, ok \in BOOLEAN : Mark(b, ok)

PoolSpec == PoolInit /\ [][PoolNext]_poolVars

-----------------------------------------------------------------------------
(* Properties. *)

Places(c) == {i \in DOMAIN idle : idle[i] = c} \union {b \in Borrower : borrower[b].client = c}

\* No client is lost or shared: every client of the pool is in the queue or with
\* exactly one caller, through timeouts, errors, closes and restarts, and so is a
\* client that comes back late to a pool that was closed and started again.
ClientsAccounted ==
    /\ \A c \in 1 .. made : Cardinality(Places(c)) <= 1
    /\ \A i \in DOMAIN clients : Places(clients[i]) # {}
=============================================================================
