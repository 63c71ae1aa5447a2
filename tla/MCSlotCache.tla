------------------------------ MODULE MCSlotCache ------------------------------
(* Small instances of SlotCache for TLC. *)
EXTENDS SlotCache, TLC

CONSTANTS v1, v2

DistinctSizes == (v1 :> 1) @@ (v2 :> 2)
SameSize == (v1 :> 1) @@ (v2 :> 1)
OneSize == v1 :> 1
Symmetry == Permutations(Client) \cup Permutations(Request)
================================================================================
