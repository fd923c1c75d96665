-------------------------- MODULE MCInferenceMarket --------------------------
(***************************************************************************)
(* Small instances of the inference market.  Two wallets, each of which     *)
(* may be client, node or both; payments on both sides of the first whole   *)
(* token of fee; deadlines short enough to pass before and after a claim.   *)
(* Besides the escrows there are an account of each wallet, a second         *)
(* account of job 0 for the same mint, and one of job 1 for another mint.    *)
(***************************************************************************)
EXTENDS InferenceMarket

CONSTANTS alice, bob, ofAlice, ofBob, second, foreign, mint, other

MCWallet == {alice, bob}
MCAccount == {ofAlice, ofBob, second, foreign}
MCOwner == [a \in MCAccount |-> CASE a = ofAlice -> alice [] a = ofBob -> bob
                                  [] a = second -> 0 [] a = foreign -> 1]
MCMint == [a \in MCAccount |-> IF a = foreign THEN other ELSE mint]
MCInitialTokens == [a \in MCAccount |-> IF a = second THEN 0 ELSE 40]
MCPayments == {0, 1, 39}
MCDeadlines == {1, 3}
=============================================================================
