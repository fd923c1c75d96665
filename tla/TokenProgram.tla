---------------------------- MODULE TokenProgram ----------------------------
(***************************************************************************)
(* The SPL token program, as the programs of this repository call it        *)
(* (token::transfer).  A token account has one owner, whose signature a      *)
(* transfer out of it needs, and holds tokens of one mint.  A transfer fails  *)
(* between accounts of different mints and when the first holds too little;   *)
(* from an account to itself it changes nothing.  Delegates, frozen accounts  *)
(* and the 64 bits of a balance, which the supply of a mint fits, are left    *)
(* out.                                                                    *)
(***************************************************************************)
EXTENDS Naturals

\* tokens and mint give for each account what it holds and of which mint.
CanTransfer(tokens, mint, from, to, amount) ==
    mint[from] = mint[to] /\ tokens[from] >= amount

Transfer(tokens, from, to, amount) ==
    [[tokens EXCEPT ![from] = @ - amount] EXCEPT ![to] = @ + amount]
=============================================================================
