-------------------------------- MODULE Gateway --------------------------------
(***************************************************************************)
(* The HTTP gateway (scripts/api_gateway.py): its rate limit, its two        *)
(* completion endpoints, and the payments of integrations/paysh/handler.py,  *)
(* whose tokens background tasks mint with node/token_ops.py.                *)
(*                                                                         *)
(* Time advances by ticks, a rate window is Window of them.  Signatures are  *)
(* valid: a webhook with another one is answered by 401 and changes nothing. *)
(***************************************************************************)
EXTENDS Integers, Sequences, FiniteSets

CONSTANTS
    Payment,        \* the payments Pay.sh reports
    Completed,      \* those whose status is "completed"
    Limit,          \* _RATE_LIMIT
    Window,         \* the 60 seconds of a rate window
    MaxRequests,    \* bound: requests in all
    MaxDeliveries   \* bound: deliveries of each payment's webhook

ASSUME GatewayAssumption == Limit \in Nat /\ Window \in Nat

VARIABLES
    connected,      \* _client is not None
    bucket,         \* _rate_buckets of one address: count, and the age of window_start
    waiting,        \* requests that await _client.complete
    metrics,        \* requests_total, requests_success and requests_failed
    admitted,       \* history: the ages of the requests that passed the limit
    delivered,      \* webhooks of each payment so far
    due,            \* scheduled _mint_tokens tasks of each payment
    minted,         \* mints of each payment on the chain
    refused         \* mints that failed or were skipped

gatewayVars == <<connected, bucket, waiting, metrics, admitted, delivered, due, minted, refused>>
requestVars == <<bucket, waiting, metrics, admitted>>
paymentVars == <<delivered, due, minted, refused>>

\* lifespan keeps a client it was given and else fails to make one.
GatewayInit ==
    /\ connected \in BOOLEAN
    /\ bucket = [count |-> 0, age |-> Window + 1]
    /\ waiting = 0
    /\ metrics = [total |-> 0, success |-> 0, failed |-> 0]
    /\ admitted = <<>>
    /\ delivered = [p \in Payment |-> 0] /\ due = [p \in Payment |-> 0]
    /\ minted = [p \in Payment |-> 0] /\ refused = [p \in Payment |-> 0]

\* A defective variant of the next definition, which no specification uses.
RateNeverRestarts_Bad ==
    IF bucket.age > Window THEN [bucket EXCEPT !.count = 1]
                           ELSE [bucket EXCEPT !.count = @ + 1]

\* _check_rate_limit: the bucket after one more request.
CheckedRate ==
    IF bucket.age > Window THEN [count |-> 1, age |-> 0]
                           ELSE [bucket EXCEPT !.count = @ + 1]

\* A request is refused by the limit, fails at once for want of a client, or waits.
Ask ==
    /\ bucket' = CheckedRate
    /\ IF CheckedRate.count > Limit
       THEN UNCHANGED <<waiting, metrics, admitted>>
       ELSE /\ metrics.total < MaxRequests
            /\ admitted' = Append(admitted, 0)
            /\ waiting' = IF connected THEN waiting + 1 ELSE waiting
            /\ metrics' = [metrics EXCEPT !.total = @ + 1,
                                          !.failed = IF connected THEN @ ELSE @ + 1]
    /\ bucket'.count <= Limit + 1
    /\ UNCHANGED <<connected, paymentVars>>

CreateCompletion == Ask
CreateChatCompletion == Ask

\* The client answers, times out or raises; or the request is cancelled, which
\* neither of the handlers' except clauses sees.
Answer ==
    /\ waiting > 0
    /\ waiting' = waiting - 1
    /\ \/ metrics' = [metrics EXCEPT !.success = @ + 1]
       \/ metrics' = [metrics EXCEPT !.failed = @ + 1]
       \/ UNCHANGED metrics
    /\ UNCHANGED <<connected, bucket, admitted, paymentVars>>

\* on_payment, called by process_webhook for a completed payment.
HandlePayment(p) == IF p \in Completed THEN due[p] + 1 ELSE due[p]

\* process_webhook, after which the handler schedules a mint of its own.
PayshWebhook(p) ==
    /\ delivered[p] < MaxDeliveries
    /\ delivered' = [delivered EXCEPT ![p] = @ + 1]
    /\ due' = [due EXCEPT ![p] = HandlePayment(p) + 1]
    /\ UNCHANGED <<connected, requestVars, minted, refused>>

\* _mint_tokens: done, or skipped for want of a mint address, or failed and logged.
MintTokens(p) ==
    /\ due[p] > 0
    /\ due' = [due EXCEPT ![p] = @ - 1]
    /\ \/ minted' = [minted EXCEPT ![p] = @ + 1] /\ UNCHANGED refused
       \/ refused' = [refused EXCEPT ![p] = @ + 1] /\ UNCHANGED minted
    /\ UNCHANGED <<connected, requestVars, delivered>>

\* Ages beyond a window are not told apart.
Older(age) == IF age > Window THEN age ELSE age + 1

GatewayTick ==
    /\ bucket' = [bucket EXCEPT !.age = Older(@)]
    /\ admitted' = [i \in DOMAIN admitted |-> Older(admitted[i])]
    /\ UNCHANGED <<connected, waiting, metrics, paymentVars>>

GatewayNext ==
    \/ CreateCompletion \/ CreateChatCompletion \/ Answer
    \/ \E p \in Payment : PayshWebhook(p) \/ MintTokens(p)
    \/ GatewayTick

GatewaySpec == GatewayInit /\ [][GatewayNext]_gatewayVars
-----------------------------------------------------------------------------
(* Properties. *)

\* Any stretch of time as long as a window, wherever it begins, holds at most twice
\* the limit of admitted requests.
RateIsBounded == Cardinality({i \in DOMAIN admitted : admitted[i] <= Window}) <= 2 * Limit

\* A payment's tokens are minted once if it was completed and never otherwise.
MintedAsPaid == \A p \in Payment : minted[p] <= IF p \in Completed THEN 1 ELSE 0
=============================================================================
