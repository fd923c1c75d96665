----------------------------- MODULE MCNodeServer -----------------------------
(***************************************************************************)
(* A client, and a node server with two workers; the client's wallet also    *)
(* claims jobs by hand.  The accounts are the client's and the escrows.      *)
(***************************************************************************)
EXTENDS NodeServer

CONSTANTS alice, bob, ofAlice, mint, w1, w2

MCWallet == {alice, bob}
MCOwner == [a \in {ofAlice} |-> alice]
MCMint == [a \in {ofAlice} |-> mint]
MCInitialTokens == [a \in {ofAlice} |-> 3]
MCJobs == {0, 1}
=============================================================================
