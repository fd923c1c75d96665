--------------------------- MODULE EscrowContract ---------------------------
(***************************************************************************)
(* What the inference market promises for each job's tokens, without        *)
(* clocks, fees or accounts: tokens are locked once, at most one worker is  *)
(* ever engaged for them, and they are released once, when a worker is       *)
(* engaged, or returned once, when none is.  Until then they are there: what  *)
(* happens to other contracts may add to what is held for one but never      *)
(* draws on it.  Frozen tokens never leave.  Into which accounts tokens are    *)
(* released or returned, and whether all of them are, is not promised.       *)
(***************************************************************************)
EXTENDS Integers

CONSTANTS Contract, Worker, Nobody

VARIABLES phase, due, held, worker

cvars == <<phase, due, held, worker>>

Phase == {"none", "offered", "engaged", "released", "returned", "frozen"}

ContractInit ==
    /\ phase = [k \in Contract |-> "none"]
    /\ due = [k \in Contract |-> 0]
    /\ held = [k \in Contract |-> 0]
    /\ worker = [k \in Contract |-> Nobody]

Lock(k) ==
    /\ phase[k] = "none"
    /\ phase' = [phase EXCEPT ![k] = "offered"]
    /\ due'[k] > 0
    /\ due' = [due EXCEPT ![k] = due'[k]]
    /\ held' = [held EXCEPT ![k] = due'[k]]
    /\ UNCHANGED worker

Engage(k) ==
    /\ phase[k] = "offered"
    /\ phase' = [phase EXCEPT ![k] = "engaged"]
    /\ \E w \in Worker : worker' = [worker EXCEPT ![k] = w]
    /\ UNCHANGED <<due, held>>

Freeze(k) ==
    /\ phase[k] = "engaged"
    /\ phase' = [phase EXCEPT ![k] = "frozen"]
    /\ UNCHANGED <<due, held, worker>>

\* What is due for k, and no more, may leave; nothing leaves the others.
Settle(k, from, to) ==
    /\ phase[k] = from
    /\ phase' = [phase EXCEPT ![k] = to]
    /\ held'[k] >= held[k] - due[k]
    /\ \A o \in Contract \ {k} : held'[o] >= held[o]
    /\ UNCHANGED <<due, worker>>

Release(k) == Settle(k, "engaged", "released")
Return(k) == Settle(k, "offered", "returned")

ContractNext ==
    \E k \in Contract : Lock(k) \/ Engage(k) \/ Freeze(k) \/ Release(k) \/ Return(k)

ContractSpec == ContractInit /\ [][ContractNext]_cvars
=============================================================================
