--------------------------- MODULE MCMigrationPolicy ---------------------------
(* A small instance of MigrationPolicy for TLC.                           *)
EXTENDS MigrationPolicy

\* One layer is larger than the others.
MixedSize == [l \in 0 .. NLayer - 1 |-> IF l = 1 THEN 3 ELSE 1]
================================================================================
