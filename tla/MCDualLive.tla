------------------------------ MODULE MCDualLive ------------------------------
(* A small instance of DualLive for TLC.                                     *)
EXTENDS DualLive
================================================================================
