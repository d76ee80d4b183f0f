---------------------------- MODULE MCCudaSession ----------------------------
(* The CUDA session for TLC.                                               *)
EXTENDS CudaSession
=============================================================================
