-------------------------- MODULE AtomicPublication --------------------------
(***************************************************************************)
(* What publishing a proof and its report promises to whoever takes the    *)
(* proof file for the commit marker: the two files of a run appear at once *)
(* and under names that were free, or not at all, and they stay.           *)
(* OutputTransaction.tla is shown to implement it.                         *)
(***************************************************************************)
CONSTANTS
  Runs,        \* runs of a product; a retry is a run of its own
  Paths,       \* names in the file system
  NoPath,      \* an output that was not asked for
  Nothing      \* at a name where there is no file

VARIABLES
  store,       \* what is published under each name
  outcome      \* of each run: "pending", "committed" or "failed"

vars == <<store, outcome>>

File(p, kind) == [by |-> p, kind |-> kind]

Init ==
  /\ store = [x \in Paths |-> Nothing]
  /\ outcome = [p \in Runs |-> "pending"]

Publish(p, proof, report) ==
  /\ outcome[p] = "pending"
  /\ proof = NoPath \/ proof # report
  /\ \A x \in {proof, report} \ {NoPath} : store[x] = Nothing
  /\ store' = [x \in Paths |-> CASE x = proof  -> File(p, "proof")
                                 [] x = report -> File(p, "report")
                                 [] OTHER      -> store[x]]
  /\ outcome' = [outcome EXCEPT ![p] = "committed"]

GiveUp(p) ==
  /\ outcome[p] = "pending"
  /\ outcome' = [outcome EXCEPT ![p] = "failed"]
  /\ UNCHANGED store

Next ==
  \E p \in Runs :
    \/ GiveUp(p)
    \/ \E proof, report \in Paths \union {NoPath} : Publish(p, proof, report)

Spec == Init /\ [][Next]_vars
=============================================================================
