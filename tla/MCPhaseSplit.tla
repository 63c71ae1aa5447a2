------------------------------ MODULE MCPhaseSplit ------------------------------
(* Small instances of PhaseSplit for TLC. *)
EXTENDS PhaseSplit, TLC

CONSTANTS r1, r2

Disjoint == (r1 :> 0) @@ (r2 :> 3)
TwiceAndOnce == (r1 :> 2) @@ (r2 :> 1)
================================================================================
