------------------------------ MODULE MCSageTools ------------------------------
(* One input of every group of tools; the bounds are in the configuration.    *)
EXTENDS SageTools
================================================================================
