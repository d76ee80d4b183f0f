--------------------------- MODULE MCSharedRuntime ---------------------------
(* The shared Metal runtime for TLC.                                       *)
EXTENDS SharedRuntime
=============================================================================
