------------------------------ MODULE MCAdapters ------------------------------
(***************************************************************************)
(* Two good adapters of a model with one module.                            *)
(***************************************************************************)
EXTENDS Adapters

MCBroken == [a \in Adapter |-> {}]
MCModules == <<"m1">>
=============================================================================
