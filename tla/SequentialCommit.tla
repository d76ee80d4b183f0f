--------------------------- MODULE SequentialCommit ---------------------------
(***************************************************************************)
(* What a commitment scheme promises to its caller, with no worker thread: *)
(* every commit appends its tree and mixes the tree's root into the        *)
(* channel at once, so the channel absorbs roots and data in the order of  *)
(* the calls. Any call may fail instead; a failed scheme yields nothing.   *)
(* DeferredCommit.tla is shown to implement it.                            *)
(***************************************************************************)
EXTENDS Naturals, Sequences

CONSTANTS
  Commits,     \* the number of trees of a proof (1, 2, ...)
  Payloads     \* the data that callers mix

VARIABLES
  status,      \* "open", "failed" or "closed"
  trees,       \* the committed trees, in order
  transcript,  \* what the channel absorbed, in order
  seen         \* the roots the last observer was given

vars == <<status, trees, transcript, seen>>

Root(k) == [tag |-> "root", n |-> k]
Data(n) == [tag |-> "data", n |-> n]

Init ==
  /\ status = "open"
  /\ trees = <<>> /\ transcript = <<>> /\ seen = <<>>

Commit ==
  /\ status = "open" /\ Len(trees) < Commits
  /\ trees' = Append(trees, Len(trees) + 1)
  /\ transcript' = Append(transcript, Root(Len(trees) + 1))
  /\ UNCHANGED <<status, seen>>

Mix(n) ==
  /\ status = "open"
  /\ transcript' = Append(transcript, Data(n))
  /\ UNCHANGED <<status, trees, seen>>

Observe ==
  /\ status = "open"
  /\ seen' = trees
  /\ UNCHANGED <<status, trees, transcript>>

Finish(how) ==
  /\ status' = how
  /\ trees' = <<>> /\ transcript' = <<>> /\ seen' = <<>>

Fail  == status = "open" /\ Finish("failed")
Close == status \in {"open", "failed"} /\ Finish("closed")

Next ==
  \/ Commit
  \/ \E n \in Payloads : Mix(n)
  \/ Observe \/ Fail \/ Close

Spec == Init /\ [][Next]_vars
=============================================================================
