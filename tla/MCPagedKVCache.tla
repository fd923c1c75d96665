---------------------------- MODULE MCPagedKVCache ----------------------------
(***************************************************************************)
(* Three sequences on fewer blocks than they would like to have, of two     *)
(* tokens each, so that prefixes end inside a block.                       *)
(***************************************************************************)
EXTENDS PagedKVCache, TLC

CONSTANTS s1, s2, s3, b1, b2, b3, b4

MCSymmetry == Permutations({s1, s2, s3}) \union Permutations({b1, b2, b3, b4})
=============================================================================
