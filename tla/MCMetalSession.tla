--------------------------- MODULE MCMetalSession ---------------------------
(* The Metal prover session for TLC. Two kinds of request share a layout    *)
(* (their rows differ, their plan does not), the others have their own.     *)
EXTENDS MetalSession, TLC

CONSTANTS k1, k2, k3, k4, l1, l2, l3

MCLayout == (k1 :> l1) @@ (k2 :> l1) @@ (k3 :> l2) @@ (k4 :> l3)
=============================================================================
