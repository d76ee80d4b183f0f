-------------------------- MODULE MCDeferredCommit --------------------------
(* The deferred commitment scheme for TLC, with every commit path.         *)
EXTENDS DeferredCommit

MCKinds == {"owned", "constant", "streaming", "precommitted", "borrowed"}
=============================================================================
