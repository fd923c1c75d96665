---------------------------- MODULE MCGovernance ----------------------------
(***************************************************************************)
(* A small instance of the DAO.  With a recorded supply of 60 the quorum is *)
(* 2.4 votes, rounded down to 2.  There are three tokens, and as they can   *)
(* weigh in both keys' votes a tally has from one unit to six, so that every *)
(* outcome and both roundings occur, and a tally whose share of votes a u64 *)
(* cannot compute.  Each key has an account, and the first proposal has one, *)
(* empty at the start; a bond of one token goes to any of them.             *)
(***************************************************************************)
EXTENDS Governance

CONSTANTS k1, k2, of1, of2, of0, token

MCVoter == {k1, k2}
MCAccount == {of1, of2, of0}
MCOwner == [a \in MCAccount |-> CASE a = of1 -> k1 [] a = of2 -> k2 [] a = of0 -> 0]
MCMint == [a \in MCAccount |-> token]
MCTokens == [a \in MCAccount |-> CASE a = of1 -> 2 [] a = of2 -> 1 [] a = of0 -> 0]
=============================================================================
