-------------------------- MODULE MCOutputTransaction --------------------------
(* The output transaction for TLC.                                         *)
EXTENDS OutputTransaction, TLC

Symmetry == Permutations(Runs) \union Permutations(Paths)
=============================================================================
