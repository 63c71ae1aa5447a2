--------------------------- MODULE MCCudaScripts ---------------------------
(* The ten CUDA scripts with four stages and two buffers, matvec with and without scores. *)
EXTENDS CudaScripts
=============================================================================
