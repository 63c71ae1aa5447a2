------------------------------ MODULE MCLayerStore ------------------------------
(* Small instances of LayerStore for TLC.                                  *)
EXTENDS LayerStore, TLC

Symmetry == Permutations(Weight)

================================================================================
