---------------------------- MODULE MCLiveMigration ----------------------------
(* Small instances of LiveMigration for TLC.                               *)
EXTENDS LiveMigration, TLC

Symmetry == Permutations(Weight)

================================================================================
