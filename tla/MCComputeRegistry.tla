-------------------------- MODULE MCComputeRegistry --------------------------
(***************************************************************************)
(* A small instance of the compute registry: a minimum stake of 10, and     *)
(* stakes whose tenth is rounded down (15, 14, 11) or is a whole token (10). *)
(* The first operator tops up, completes a job and is slashed, also while a  *)
(* request is pending; the second stakes and unstakes beside it.             *)
(* Each operator has one account; a third account, of another mint, is of   *)
(* the first operator's node.                                             *)
(***************************************************************************)
EXTENDS ComputeRegistry

CONSTANTS op1, op2, of1, of2, foreign, token, other

MCAccount == {of1, of2, foreign}
MCOwner == [a \in MCAccount |-> CASE a = of1 -> op1 [] a = of2 -> op2
                                  [] a = foreign -> NodeAccount(op1)]
MCMint == [a \in MCAccount |-> IF a = foreign THEN other ELSE token]
MCTokens == [a \in MCAccount |-> CASE a = of1 -> 15 [] a = of2 -> 10 [] a = foreign -> 4]
MCAmounts == {4, 10, 11}
MCMaxCompletions == [o \in {op1, op2} |-> IF o = op1 THEN 1 ELSE 0]
MCMaxSlashes == [o \in {op1, op2} |-> IF o = op1 THEN 1 ELSE 0]
MCMaxStake == [o \in {op1, op2} |-> IF o = op1 THEN 15 ELSE 10]
=============================================================================
