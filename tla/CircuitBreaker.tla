---------------------------- MODULE CircuitBreaker ----------------------------
(***************************************************************************)
(* The circuit breaker around service calls (node/circuit_breaker.py): the  *)
(* inference pipeline of a node has one, and each remote peer has one.      *)
(*                                                                         *)
(* Calls overlap: each is admitted in one state of the circuit and reports  *)
(* its end in another, and only the circuit's present state decides what    *)
(* the report does.  The move from OPEN to HALF_OPEN is made by whoever     *)
(* next looks at the state.                                                *)
(***************************************************************************)
EXTENDS Integers

CONSTANTS
    Caller,            \* the tasks that share the breaker
    Cancellable,       \* those whose calls may be cancelled
    FailureThreshold,  \* config.failure_threshold
    SuccessThreshold,  \* config.success_threshold
    Timeout,           \* config.timeout_seconds, in ticks of the clock
    MaxFailures        \* bound: failures counted before the next success or reset

ASSUME BreakerAssumption ==
    /\ Cancellable \subseteq Caller
    /\ FailureThreshold \in Nat \ {0}
    /\ SuccessThreshold \in Nat \ {0}
    /\ Timeout \in Nat
    /\ MaxFailures \in Nat

CircuitState == {"CLOSED", "OPEN", "HALF_OPEN"}

\* _state, _failure_count, _success_count, and the ticks since
\* _last_failure_time, which are not counted once beyond the timeout.
Circuit == [state : CircuitState, failures : Nat, successes : Nat, elapsed : 0 .. Timeout + 1]

VARIABLES
    circuit,  \* the breaker
    calls     \* what each caller does

vars == <<circuit, calls>>

-----------------------------------------------------------------------------
\* The names that end in _Bad are defective variants of the definition that
\* follows them; no specification uses them.  Each breaks one property below,
\* which shows that the property says something about the code.

Fresh == [state |-> "CLOSED", failures |-> 0, successes |-> 0, elapsed |-> Timeout + 1]

Expired(cb) == cb.state = "OPEN" /\ cb.elapsed >= Timeout

\* The state property: what a reader sees, and leaves behind.
Read(cb) == IF Expired(cb) THEN [cb EXCEPT !.state = "HALF_OPEN", !.successes = 0] ELSE cb

Closed(cb) == [state |-> "CLOSED", failures |-> 0,
               successes |-> cb.successes, elapsed |-> cb.elapsed]

OnSuccessAnywhere_Bad(cb) ==
    LET counted == [cb EXCEPT !.successes = @ + 1]
    IN IF cb.state = "CLOSED" \/ counted.successes >= SuccessThreshold
       THEN Closed(counted) ELSE counted

\* _on_success
OnSuccess(cb) ==
    LET counted == [state |-> cb.state, failures |-> cb.failures,
                    successes |-> cb.successes + 1, elapsed |-> cb.elapsed]
    IN CASE cb.state = "HALF_OPEN" ->
               IF counted.successes >= SuccessThreshold THEN Closed(counted) ELSE counted
         [] cb.state = "CLOSED" -> Closed(cb)
         [] cb.state = "OPEN" -> cb

\* _on_failure, n times in a row
OnFailures(cb, n) ==
    [state |-> IF cb.failures + n >= FailureThreshold THEN "OPEN" ELSE cb.state,
     failures |-> cb.failures + n, successes |-> cb.successes, elapsed |-> 0]

-----------------------------------------------------------------------------
Init ==
    /\ circuit = Fresh
    /\ calls = [c \in Caller |-> "idle"]

CallClosedOnly_Bad(c) ==
    /\ calls[c] = "idle"
    /\ Read(circuit).state = "CLOSED"
    /\ circuit' = Read(circuit)
    /\ calls' = [calls EXCEPT ![c] = "running"]

\* call, up to its await; a caller that is refused changes nothing.
Call(c) ==
    /\ calls[c] = "idle"
    /\ Read(circuit).state # "OPEN"
    /\ circuit' = Read(circuit)
    /\ calls' = [calls EXCEPT ![c] = "running"]

Finish(c) ==
    /\ calls[c] = "running"
    /\ calls' = [calls EXCEPT ![c] = "idle"]

\* call, when the awaited call returns or raises.
Succeed(c) == Finish(c) /\ circuit' = OnSuccess(circuit)
Fail(c) ==
    /\ Finish(c)
    /\ circuit.failures < MaxFailures
    /\ circuit' = OnFailures(circuit, 1)

\* A cancelled call reports nothing: CancelledError is no Exception.
Abandon(c) == c \in Cancellable /\ Finish(c) /\ UNCHANGED circuit

\* stats, and every other reader of the state property.
Look == Expired(circuit) /\ circuit' = Read(circuit) /\ UNCHANGED calls

\* RemoteShardClient.forward, its retries exhausted: trips the circuit by hand.
Trip ==
    /\ Read(circuit).state # "OPEN"
    /\ circuit.failures + FailureThreshold <= MaxFailures
    /\ circuit' = OnFailures(Read(circuit), FailureThreshold)
    /\ UNCHANGED calls

Reset ==
    /\ circuit' = [Closed(circuit) EXCEPT !.successes = 0]
    /\ UNCHANGED calls

Tick ==
    /\ circuit.elapsed <= Timeout
    /\ circuit' = [circuit EXCEPT !.elapsed = circuit.elapsed + 1]
    /\ UNCHANGED calls

Next ==
    \/ \E c \in Caller : Call(c) \/ Succeed(c) \/ Fail(c) \/ Abandon(c)
    \/ Look \/ Trip \/ Reset \/ Tick

Spec == Init /\ [][Next]_vars

\* The clock advances; callers that are not cancelled call again and again and
\* their calls end.  MaxFailures is the assumption that the service comes back.
FairSpec ==
    /\ Spec
    /\ WF_vars(Tick)
    /\ \A c \in Caller \ Cancellable : WF_vars(Call(c)) /\ WF_vars(Succeed(c) \/ Fail(c))

-----------------------------------------------------------------------------
(* Properties. *)

TypeOK ==
    /\ circuit \in Circuit
    /\ calls \in [Caller -> {"idle", "running"}]

\* The circuit is closed exactly while it has counted fewer failures than the
\* threshold, whichever reports of overlapping calls arrived in whatever state:
\* a half-open circuit is always one failure away from opening again.
TripIsCounted == circuit.state = "CLOSED" <=> circuit.failures < FailureThreshold

\* A circuit is half-open only while no failure, not even a late one of a call
\* admitted before the circuit opened, is younger than the timeout.
HalfOpenIsQuiet == circuit.state = "HALF_OPEN" => circuit.elapsed >= Timeout

\* No report of a call, however late, takes an open circuit out of that state.
LateAnswersKeepOpen ==
    [][(\E c \in Caller : calls[c] = "running" /\ calls'[c] = "idle") /\ circuit.state = "OPEN"
          => circuit'.state = "OPEN"]_vars

\* Once the service answers again the circuit closes, provided callers go on.
Recovers == circuit.state # "CLOSED" ~> circuit.state = "CLOSED"

=============================================================================
