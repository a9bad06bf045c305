------------------------------ MODULE MCMounts ------------------------------
(***************************************************************************)
(* A small instance of Mounts: two objects that share a name, one with a   *)
(* name of its own, three slots and a caller.                              *)
(***************************************************************************)
EXTENDS Mounts, TLC

CONSTANTS o1, o2, o3

MCNameOf == (o1 :> "fs0") @@ (o2 :> "fs0") @@ (o3 :> "fs1")

NamesakeSymmetry == Permutations({o1, o2})
=============================================================================
