-------------------------- MODULE OutputTransaction --------------------------
(***************************************************************************)
(* Publication of a proof and its report (interop/output_transaction.zig,  *)
(* atomic_file.zig, and the transactions of the products around them), by  *)
(* runs that share a file system and know nothing of each other. Each of   *)
(* their system calls is a step, in which any of them may fail or the run  *)
(* may be killed.                                                          *)
(*                                                                         *)
(* Files are written under temporary names first. Those are random, so no  *)
(* other run meets them, and removing them is best effort; they are left   *)
(* out. What is linked to an output name has been written and synced. Two  *)
(* spellings of one path pass for two paths.                               *)
(***************************************************************************)
CONSTANTS
  Runs,        \* runs of a product; a retry is a run of its own
  Paths,       \* names in the file system
  NoPath,      \* an output that was not asked for
  Nothing      \* at a name where there is no file

ASSUME PathsAssumption ==
  /\ NoPath \notin Paths
  /\ Nothing \notin [by : Runs, kind : {"proof", "report"}]

VARIABLES
  pc,          \* where each run is
  want,        \* the output paths of each run
  files,       \* what is visible under each name
  printed      \* the runs whose report went to standard output

vars == <<pc, want, files, printed>>

Outputs == [proof : Paths \union {NoPath}, report : Paths \union {NoPath}]
File(p, kind) == [by |-> p, kind |-> kind]
Running == {"check proof", "check report", "prove", "recheck proof", "recheck report",
            "publish report", "publish proof", "roll back"}

Init ==
  /\ pc = [p \in Runs |-> "idle"]
  /\ want = [p \in Runs |-> [proof |-> NoPath, report |-> NoPath]]
  /\ files = [x \in Paths |-> Nothing]
  /\ printed = {}

Goto(p, l) == pc' = [pc EXCEPT ![p] = l]

Begin(p, w) ==
  /\ pc[p] = "idle"
  /\ want' = [want EXCEPT ![p] = w]
  /\ Goto(p, "check proof")
  /\ UNCHANGED <<files, printed>>

(* requireAbsent. Any answer but FileNotFound is an error, as are two      *)
(* equal paths if they are spelled alike.                                  *)
Absent(p, x, l) ==
  /\ \/ (x \in Paths => files[x] = Nothing) /\ Goto(p, l)
     \/ x \in Paths /\ Goto(p, "failed")
  /\ UNCHANGED <<want, files, printed>>

(* prepare, before proving and again before publishing.                    *)
CheckProof(p)    == pc[p] = "check proof"    /\ Absent(p, want[p].proof, "check report")
CheckReport(p)   == pc[p] = "check report"   /\ Absent(p, want[p].report, "prove")
RecheckProof(p)  == pc[p] = "recheck proof"  /\ Absent(p, want[p].proof, "recheck report")
RecheckReport(p) == pc[p] = "recheck report" /\ Absent(p, want[p].report, "publish report")

(* The proof is under its temporary name.                                  *)
Prove(p) ==
  /\ pc[p] = "prove"
  /\ \E l \in {"recheck proof", "failed"} : Goto(p, l)
  /\ UNCHANGED <<want, files, printed>>

(* link(2) makes a name for a file unless there is one.                    *)
BugFree(x) == TRUE
Free(x) == files[x] = Nothing

Link(p, x, kind) ==
  /\ Free(x)
  /\ files' = [files EXCEPT ![x] = File(p, kind)]
  /\ UNCHANGED <<want, printed>>

(* A run without a proof to publish is done with its report.               *)
AfterReport(p) == IF want[p].proof = NoPath THEN "done" ELSE "publish proof"

PublishReport(p) ==
  /\ pc[p] = "publish report" /\ want[p].report # NoPath
  /\ Link(p, want[p].report, "report")
  /\ Goto(p, AfterReport(p))

PrintReport(p) ==
  /\ pc[p] = "publish report" /\ want[p].report = NoPath
  /\ printed' = printed \union {p}
  /\ Goto(p, AfterReport(p))
  /\ UNCHANGED <<want, files>>

BugWithoutReport(p) == IF want[p].report = NoPath THEN "failed" ELSE "roll back"
WithoutReport(p) == "failed"
ReportFails(p) ==
  /\ pc[p] = "publish report"
  /\ Goto(p, WithoutReport(p))
  /\ UNCHANGED <<want, files, printed>>

PublishProof(p) ==
  /\ pc[p] = "publish proof"
  /\ Link(p, want[p].proof, "proof")
  /\ Goto(p, "done")

BugWithoutProofKept(p) == "failed"
BugWithoutProofUndone(p) == "roll back"
WithoutProof(p) == IF want[p].report = NoPath THEN "failed" ELSE "roll back"
ProofFails(p) ==
  /\ pc[p] = "publish proof"
  /\ Goto(p, WithoutProof(p))
  /\ UNCHANGED <<want, files, printed>>

(* rollbackReport removes what has the report's name.                      *)
RollBack(p) ==
  /\ pc[p] = "roll back"
  /\ files[want[p].report] # Nothing
  /\ files' = [files EXCEPT ![want[p].report] = Nothing]
  /\ Goto(p, "failed")
  /\ UNCHANGED <<want, printed>>

RollBackFails(p) ==
  /\ pc[p] = "roll back"
  /\ Goto(p, "stuck")
  /\ UNCHANGED <<want, files, printed>>

Kill(p) ==
  /\ pc[p] \in Running
  /\ Goto(p, "killed")
  /\ UNCHANGED <<want, files, printed>>

(* Somebody clears what a killed or stuck run has left, to try again.      *)
ClearAway(x) ==
  /\ files[x] # Nothing /\ pc[files[x].by] \in {"killed", "stuck"}
  /\ files' = [files EXCEPT ![x] = Nothing]
  /\ UNCHANGED <<pc, want, printed>>

Next ==
  \/ \E p \in Runs :
       \/ \E w \in Outputs : Begin(p, w)
       \/ CheckProof(p) \/ CheckReport(p) \/ Prove(p) \/ RecheckProof(p) \/ RecheckReport(p)
       \/ PublishReport(p) \/ PrintReport(p) \/ ReportFails(p)
       \/ PublishProof(p) \/ ProofFails(p)
       \/ RollBack(p) \/ RollBackFails(p) \/ Kill(p)
  \/ \E x \in Paths : ClearAway(x)

Spec == Init /\ [][Next]_vars

-----------------------------------------------------------------------------
(* Properties.                                                             *)

(* Every variable has its type; what is rolled back is a report that has a *)
(* name.                                                                   *)
TypeOK ==
  /\ pc \in [Runs -> Running \union {"idle", "done", "failed", "stuck", "killed"}]
  /\ want \in [Runs -> Outputs]
  /\ files \in [Paths -> [by : Runs, kind : {"proof", "report"}] \union {Nothing}]
  /\ printed \subseteq Runs
  /\ \A p \in Runs : pc[p] = "roll back" => want[p].report # NoPath

(* "a proof produced by this transaction is never visible before its       *)
(* report" (output_transaction.zig 4-6), whoever else publishes under      *)
(* those names, rolls back or is killed, and it does not lose it later.    *)
ReportFirst ==
  \A x \in Paths : \A p \in Runs :
    files[x] = File(p, "proof") =>
      IF want[p].report = NoPath THEN p \in printed
                                 ELSE files[want[p].report] = File(p, "report")

(* What a run leaves: after an error nothing, unless the rollback itself   *)
(* failed or the run was killed; then at most its report.                  *)
ErrorsLeaveNothing ==
  \A x \in Paths : files[x] # Nothing =>
    LET p == files[x].by IN
    /\ pc[p] \notin {"idle", "failed"}
    /\ pc[p] # "done" => files[x].kind = "report" /\ x = want[p].report

(* Published is what belongs to a run that is done: "The proof path is the *)
(* commit marker" (3). A report alone, while its proof may still come or   *)
(* never will, is not published.                                           *)
published ==
  [x \in Paths |-> IF files[x] # Nothing /\ pc[files[x].by] = "done" THEN files[x] ELSE Nothing]
outcome ==
  [p \in Runs |-> CASE pc[p] = "done" -> "committed"
                    [] pc[p] \in {"failed", "stuck", "killed", "roll back"} -> "failed"
                    [] OTHER -> "pending"]

AP == INSTANCE AtomicPublication WITH store <- published

(* To whoever reads it so, a run publishes both its files in one step      *)
(* under free names, or none, and nobody takes them away.                  *)
ImplementsAtomic == AP!Spec
=============================================================================
