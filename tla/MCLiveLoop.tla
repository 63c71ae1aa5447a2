------------------------------ MODULE MCLiveLoop ------------------------------
(* A small instance of LiveLoop for TLC.                                     *)
EXTENDS LiveLoop
================================================================================
