--------------------------- MODULE MCPoolRegistry ---------------------------
(***************************************************************************)
(* Requests about one pool for TLC, of two users, the first with two       *)
(* devices.                                                                *)
(***************************************************************************)
EXTENDS PoolRegistry, TLC

Owners == (1 :> 1) @@ (2 :> 1) @@ (3 :> 2)
Symmetry == Permutations(Requests)
============================================================================
