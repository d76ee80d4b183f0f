----------------------- MODULE OutputTransactionProofs -----------------------
(***************************************************************************)
(* Proofs about OutputTransaction, for any runs and names. OutputInv is    *)
(* inductive: whatever is visible is where its run wanted it, and its run  *)
(* is where it should be (Owned); a run that is past a link still has the  *)
(* file it linked (Kept). Both are needed: a run that rolls back removes   *)
(* by name, and only Kept says that the name is still its own.             *)
(***************************************************************************)
EXTENDS OutputTransaction, TLAPS

Owned ==
  \A x \in Paths : files[x] # Nothing =>
    LET p == files[x].by IN
    IF files[x].kind = "proof"
    THEN x = want[p].proof /\ pc[p] = "done"
    ELSE x = want[p].report /\ pc[p] \in {"publish proof", "roll back", "done", "stuck", "killed"}

KeptBy(p) ==
  /\ pc[p] \in {"publish proof", "roll back", "done"} =>
       IF want[p].report = NoPath THEN p \in printed
                                  ELSE files[want[p].report] = File(p, "report")
  /\ pc[p] = "done" /\ want[p].proof # NoPath => files[want[p].proof] = File(p, "proof")
  /\ pc[p] = "publish proof" => want[p].proof # NoPath

Kept == \A p \in Runs : KeptBy(p)

OutputInv == TypeOK /\ Owned /\ Kept

LEMMA FileNames ==
  ASSUME NEW p \in Runs, NEW kind \in {"proof", "report"}
  PROVE  /\ File(p, kind) \in [by : Runs, kind : {"proof", "report"}]
         /\ File(p, kind) # Nothing
         /\ File(p, kind).by = p /\ File(p, kind).kind = kind
  BY PathsAssumption DEF File

LEMMA FilesDiffer ==
  ASSUME NEW p \in Runs, NEW q \in Runs, NEW k \in {"proof", "report"}, NEW j \in {"proof", "report"},
         p # q \/ k # j
  PROVE  File(p, k) # File(q, j)
  BY FileNames

LEMMA InitInv == Init => OutputInv
  BY PathsAssumption DEF Init, OutputInv, TypeOK, Owned, Kept, KeptBy, Outputs, Running

(* A run that moves on without a file: no file is visible of it where it   *)
(* comes from, or its report alone, which it keeps.                        *)
LEMMA MoveStep ==
  ASSUME OutputInv, NEW p \in Runs, UNCHANGED <<want, files, printed>>,
         NEW l, Goto(p, l),
         \/ /\ pc[p] \in {"check proof", "check report", "prove", "recheck proof",
                          "recheck report", "publish report"}
            /\ l \in {"check report", "prove", "recheck proof", "recheck report",
                      "publish report", "failed", "killed"}
         \/ pc[p] = "publish proof" /\ l = "killed"
         \/ pc[p] = "roll back" /\ l \in {"stuck", "killed"}
         \/ pc[p] = "publish proof" /\ want[p].report # NoPath /\ l = "roll back"
         \/ pc[p] = "publish proof" /\ want[p].report = NoPath /\ l = "failed"
  PROVE  OutputInv'
  <1>1. TypeOK'
    BY DEF OutputInv, TypeOK, Goto, Running
  <1>2. Owned'
    <2>1. pc'[p] = l /\ \A q \in Runs : q # p => pc'[q] = pc[q]
      BY DEF OutputInv, TypeOK, Goto
    <2>2. SUFFICES ASSUME NEW x \in Paths, files[x] # Nothing
                   PROVE  IF files[x].kind = "proof"
                          THEN x = want[files[x].by].proof /\ pc'[files[x].by] = "done"
                          ELSE /\ x = want[files[x].by].report
                               /\ pc'[files[x].by] \in {"publish proof", "roll back", "done",
                                                       "stuck", "killed"}
      BY DEF Owned
    <2>3. files[x].by \in Runs /\ x # NoPath
      BY <2>2, PathsAssumption DEF OutputInv, TypeOK
    <2>4. CASE files[x].by # p
      BY <2>1, <2>2, <2>3, <2>4 DEF OutputInv, Owned
    <2>5. CASE files[x].by = p
      <3>1. files[x].kind # "proof" /\ x = want[p].report /\ pc[p] \in {"publish proof", "roll back"}
        BY <2>2, <2>5 DEF OutputInv, Owned
      <3>2. l \in {"roll back", "stuck", "killed"}
        BY <2>3, <3>1
      <3> QED BY <2>1, <2>5, <3>1, <3>2
    <2> QED BY <2>4, <2>5
  <1>3. Kept'
    BY DEF OutputInv, TypeOK, Kept, KeptBy, Goto, Running
  <1> QED BY <1>1, <1>2, <1>3 DEF OutputInv

LEMMA BeginStep ==
  ASSUME OutputInv, NEW p \in Runs, NEW w \in Outputs, Begin(p, w)
  PROVE  OutputInv'
  <1>1. TypeOK'
    BY DEF OutputInv, TypeOK, Begin, Goto, Running
  <1>2. Owned'
    BY PathsAssumption DEF OutputInv, TypeOK, Owned, Begin, Goto
  <1>3. Kept'
    BY DEF OutputInv, TypeOK, Kept, KeptBy, Begin, Goto
  <1> QED BY <1>1, <1>2, <1>3 DEF OutputInv

LEMMA PrintStep ==
  ASSUME OutputInv, NEW p \in Runs, PrintReport(p)
  PROVE  OutputInv'
  <1>1. TypeOK'
    BY DEF OutputInv, TypeOK, PrintReport, AfterReport, Goto, Running
  <1>2. Owned'
    BY PathsAssumption DEF OutputInv, TypeOK, Owned, PrintReport, AfterReport, Goto
  <1>3. Kept'
    <2> SUFFICES ASSUME NEW q \in Runs
                 PROVE  KeptBy(q)'
      BY DEF Kept
    <2>1. KeptBy(q) /\ want[p] \in Outputs /\ want' = want /\ files' = files
      BY DEF OutputInv, TypeOK, Kept, KeptBy, PrintReport
    <2>2. CASE q = p
      BY <2>1, <2>2 DEF OutputInv, TypeOK, KeptBy, PrintReport, AfterReport, Goto
    <2>3. CASE q # p
      BY <2>1, <2>3 DEF OutputInv, TypeOK, KeptBy, PrintReport, Goto
    <2> QED BY <2>2, <2>3
  <1> QED BY <1>1, <1>2, <1>3 DEF OutputInv

(* A link finds its name free, so it takes nobody's file away.             *)
LEMMA ReportStep ==
  ASSUME OutputInv, NEW p \in Runs, PublishReport(p)
  PROVE  OutputInv'
  <1> DEFINE x == want[p].report
             f == File(p, "report")
  <1>1. /\ x \in Paths /\ files[x] = Nothing /\ files' = [files EXCEPT ![x] = f]
        /\ UNCHANGED <<want, printed>> /\ pc[p] = "publish report"
        /\ pc' = [pc EXCEPT ![p] = AfterReport(p)]
    BY DEF OutputInv, TypeOK, PublishReport, Link, Free, Goto, Outputs
  <1>2. f \in [by : Runs, kind : {"proof", "report"}] /\ f # Nothing /\ f.by = p /\ f.kind = "report"
    BY FileNames
  <1>3. TypeOK'
    BY <1>1, <1>2 DEF OutputInv, TypeOK, AfterReport, Running
  <1>4. Owned'
    BY <1>1, <1>2 DEF OutputInv, TypeOK, Owned, AfterReport
  <1>5. Kept'
    <2> SUFFICES ASSUME NEW q \in Runs
                 PROVE  KeptBy(q)'
      BY DEF Kept
    <2>1. KeptBy(q) /\ want[q] \in Outputs
      BY DEF OutputInv, TypeOK, Kept
    <2>2. \A y \in Paths : files[y] # Nothing => files'[y] = files[y]
      BY <1>1 DEF OutputInv, TypeOK
    <2>3. \A k \in {"proof", "report"} : File(q, k) # Nothing
      BY FileNames
    <2>4. CASE q = p
      BY PathsAssumption, <1>1, <2>1, <2>2, <2>3, <2>4
         DEF OutputInv, TypeOK, KeptBy, Outputs, AfterReport
    <2>5. CASE q # p
      BY <1>1, <2>1, <2>2, <2>3, <2>5 DEF OutputInv, TypeOK, KeptBy, Outputs
    <2> QED BY <2>4, <2>5
  <1> QED BY <1>3, <1>4, <1>5 DEF OutputInv

LEMMA ProofStep ==
  ASSUME OutputInv, NEW p \in Runs, PublishProof(p)
  PROVE  OutputInv'
  <1> DEFINE x == want[p].proof
             f == File(p, "proof")
  <1>1. /\ x \in Paths /\ files[x] = Nothing /\ files' = [files EXCEPT ![x] = f]
        /\ UNCHANGED <<want, printed>> /\ pc[p] = "publish proof"
        /\ pc' = [pc EXCEPT ![p] = "done"]
    BY DEF OutputInv, TypeOK, Kept, KeptBy, PublishProof, Link, Free, Goto, Outputs
  <1>2. f \in [by : Runs, kind : {"proof", "report"}] /\ f # Nothing /\ f.by = p /\ f.kind = "proof"
    BY FileNames
  <1>3. TypeOK'
    BY <1>1, <1>2 DEF OutputInv, TypeOK, Running
  <1>4. Owned'
    BY <1>1, <1>2 DEF OutputInv, TypeOK, Owned
  <1>5. Kept'
    <2> SUFFICES ASSUME NEW q \in Runs
                 PROVE  KeptBy(q)'
      BY DEF Kept
    <2>1. KeptBy(q) /\ want[q] \in Outputs
      BY DEF OutputInv, TypeOK, Kept
    <2>2. \A y \in Paths : files[y] # Nothing => files'[y] = files[y]
      BY <1>1 DEF OutputInv, TypeOK
    <2>3. \A k \in {"proof", "report"} : File(q, k) # Nothing
      BY FileNames
    <2>4. CASE q = p
      BY <1>1, <2>1, <2>2, <2>3, <2>4 DEF OutputInv, TypeOK, KeptBy, Outputs
    <2>5. CASE q # p
      BY <1>1, <2>1, <2>2, <2>3, <2>5 DEF OutputInv, TypeOK, KeptBy, Outputs
    <2> QED BY <2>4, <2>5
  <1> QED BY <1>3, <1>4, <1>5 DEF OutputInv

(* The name that is rolled back still has the run's own report.            *)
LEMMA RollBackStep ==
  ASSUME OutputInv, NEW p \in Runs, RollBack(p)
  PROVE  OutputInv'
  <1> DEFINE x == want[p].report
  <1>1. /\ x \in Paths /\ files[x] = File(p, "report")
        /\ files' = [files EXCEPT ![x] = Nothing]
        /\ UNCHANGED <<want, printed>> /\ pc[p] = "roll back"
        /\ pc' = [pc EXCEPT ![p] = "failed"]
    BY DEF OutputInv, TypeOK, Kept, KeptBy, RollBack, Goto, Outputs
  <1>2. TypeOK'
    BY <1>1 DEF OutputInv, TypeOK, Running
  <1>3. Owned'
    BY <1>1 DEF OutputInv, TypeOK, Owned
  <1>4. Kept'
    <2> SUFFICES ASSUME NEW q \in Runs
                 PROVE  KeptBy(q)'
      BY DEF Kept
    <2>1. KeptBy(q) /\ want[q] \in Outputs
      BY DEF OutputInv, TypeOK, Kept
    <2>2. \A y \in Paths : files[y] # File(p, "report") => files'[y] = files[y]
      BY <1>1 DEF OutputInv, TypeOK
    <2>3. CASE q = p
      BY <1>1, <2>3 DEF OutputInv, TypeOK, KeptBy
    <2>4. CASE q # p
      <3>1. \A k \in {"proof", "report"} : File(q, k) # File(p, "report")
        BY <2>4, FilesDiffer
      <3> QED BY <1>1, <2>1, <2>2, <2>4, <3>1 DEF OutputInv, TypeOK, KeptBy, Outputs
    <2> QED BY <2>3, <2>4
  <1> QED BY <1>2, <1>3, <1>4 DEF OutputInv

LEMMA ClearStep ==
  ASSUME OutputInv, NEW x \in Paths, ClearAway(x)
  PROVE  OutputInv'
  <1>1. TypeOK'
    BY DEF OutputInv, TypeOK, ClearAway
  <1>2. Owned'
    BY DEF OutputInv, TypeOK, Owned, ClearAway
  <1>3. Kept'
    <2> SUFFICES ASSUME NEW q \in Runs
                 PROVE  KeptBy(q)'
      BY DEF Kept
    <2>1. KeptBy(q) /\ want[q] \in Outputs
      BY DEF OutputInv, TypeOK, Kept
    <2>2. \A k \in {"proof", "report"} : File(q, k).by = q
      BY FileNames
    <2> QED BY <2>1, <2>2 DEF OutputInv, TypeOK, KeptBy, Outputs, ClearAway
  <1> QED BY <1>1, <1>2, <1>3 DEF OutputInv

LEMMA InvStep == OutputInv /\ [Next]_vars => OutputInv'
  <1> SUFFICES ASSUME OutputInv, [Next]_vars
               PROVE  OutputInv'
    OBVIOUS
  <1>1. CASE UNCHANGED vars
    BY <1>1 DEF vars, OutputInv, TypeOK, Owned, Kept, KeptBy
  <1>2. ASSUME NEW p \in Runs, NEW w \in Outputs, Begin(p, w)
        PROVE  OutputInv'
    BY <1>2, BeginStep
  <1>3. ASSUME NEW p \in Runs,
               \/ CheckProof(p) \/ CheckReport(p) \/ Prove(p) \/ RecheckProof(p)
               \/ RecheckReport(p) \/ ReportFails(p)
        PROVE  OutputInv'
    BY <1>3, MoveStep DEF CheckProof, CheckReport, Prove, RecheckProof, RecheckReport,
                          ReportFails, WithoutReport, Absent
  <1>4. ASSUME NEW p \in Runs, ProofFails(p) \/ RollBackFails(p) \/ Kill(p)
        PROVE  OutputInv'
    BY <1>4, MoveStep DEF ProofFails, WithoutProof, RollBackFails, Kill, Running
  <1>5. ASSUME NEW p \in Runs, PublishReport(p) \/ PrintReport(p)
        PROVE  OutputInv'
    BY <1>5, ReportStep, PrintStep
  <1>6. ASSUME NEW p \in Runs, PublishProof(p) \/ RollBack(p)
        PROVE  OutputInv'
    BY <1>6, ProofStep, RollBackStep
  <1>7. ASSUME NEW x \in Paths, ClearAway(x)
        PROVE  OutputInv'
    BY <1>7, ClearStep
  <1> QED BY <1>1, <1>2, <1>3, <1>4, <1>5, <1>6, <1>7 DEF Next

(* The inductive invariant.                                                *)
THEOREM Invariance == Spec => []OutputInv
  <1> QED BY InitInv, InvStep, PTL DEF Spec

(* Every variable keeps its type, and only named reports are rolled back.  *)
THEOREM TypeCorrect == Spec => []TypeOK
  <1>1. OutputInv => TypeOK
    BY DEF OutputInv
  <1> QED BY <1>1, Invariance, PTL

(* No proof is visible without its report, whatever other runs do.         *)
THEOREM ReportsFirst == Spec => []ReportFirst
  <1>1. OutputInv => ReportFirst
    <2> SUFFICES ASSUME OutputInv, NEW x \in Paths, NEW p \in Runs, files[x] = File(p, "proof")
                 PROVE  IF want[p].report = NoPath THEN p \in printed
                                                   ELSE files[want[p].report] = File(p, "report")
      BY DEF ReportFirst
    <2>1. files[x] # Nothing /\ files[x].by = p /\ files[x].kind = "proof"
      BY FileNames
    <2>2. pc[p] = "done"
      BY <2>1 DEF OutputInv, Owned
    <2> QED BY <2>2 DEF OutputInv, Kept, KeptBy
  <1> QED BY <1>1, Invariance, PTL

(* A run that reports an error has left nothing behind.                    *)
THEOREM NothingLeft == Spec => []ErrorsLeaveNothing
  <1>1. OutputInv => ErrorsLeaveNothing
    BY DEF OutputInv, TypeOK, Owned, ErrorsLeaveNothing
  <1> QED BY <1>1, Invariance, PTL

-----------------------------------------------------------------------------
(* The refinement.                                                         *)

OutcomeAt(l) ==
  CASE l = "done" -> "committed"
    [] l \in {"failed", "stuck", "killed", "roll back"} -> "failed"
    [] OTHER -> "pending"

LEMMA OutcomeMoves ==
  ASSUME OutputInv, NEW p \in Runs, NEW l, Goto(p, l)
  PROVE  outcome' = [outcome EXCEPT ![p] = OutcomeAt(l)] /\ outcome[p] = OutcomeAt(pc[p])
  BY DEF OutputInv, TypeOK, Goto, outcome, OutcomeAt

(* A run that is not done and does not get done changes nothing that is    *)
(* published, whatever it does to its own files.                           *)
LEMMA StoreStays ==
  ASSUME OutputInv, NEW p \in Runs, NEW l, Goto(p, l), pc[p] # "done", l # "done",
         \A x \in Paths :
           \/ files'[x] = files[x]
           \/ /\ files[x] = Nothing \/ files[x].by = p
              /\ files'[x] = Nothing \/ files'[x].by = p
  PROVE  published' = published
  <1>1. pc' = [pc EXCEPT ![p] = l]
    BY DEF Goto
  <1> SUFFICES ASSUME NEW x \in Paths
               PROVE  (IF files'[x] # Nothing /\ pc'[files'[x].by] = "done" THEN files'[x] ELSE Nothing)
                        = (IF files[x] # Nothing /\ pc[files[x].by] = "done" THEN files[x] ELSE Nothing)
    BY DEF published
  <1>2. files[x] # Nothing => files[x].by \in Runs
    BY DEF OutputInv, TypeOK
  <1> QED BY <1>1, <1>2 DEF OutputInv, TypeOK

(* Such a run gives up or goes on.                                         *)
LEMMA MoveMaps ==
  ASSUME OutputInv, NEW p \in Runs, NEW l, Goto(p, l), published' = published,
         \/ OutcomeAt(l) = OutcomeAt(pc[p])
         \/ OutcomeAt(pc[p]) = "pending" /\ OutcomeAt(l) = "failed"
  PROVE  [AP!Next]_AP!vars
  <1>1. outcome' = [outcome EXCEPT ![p] = OutcomeAt(l)] /\ outcome[p] = OutcomeAt(pc[p])
    BY OutcomeMoves
  <1>2. CASE OutcomeAt(l) = OutcomeAt(pc[p])
    <2>1. outcome' = outcome
      BY <1>1, <1>2 DEF outcome
    <2> QED BY <2>1 DEF AP!vars
  <1>3. CASE OutcomeAt(pc[p]) = "pending" /\ OutcomeAt(l) = "failed"
    <2>1. AP!GiveUp(p)
      BY <1>1, <1>3 DEF AP!GiveUp
    <2> QED BY <2>1 DEF AP!Next
  <1> QED BY <1>2, <1>3

(* A run that gets done publishes both its files at once: those it has     *)
(* linked are exactly the ones it wanted, and no other name changes.       *)
LEMMA DoneMaps ==
  ASSUME OutputInv, OutputInv', NEW p \in Runs, Goto(p, "done"),
         pc[p] \in {"publish report", "publish proof"}, want' = want,
         \A x \in Paths : files'[x] = files[x] \/ (files[x] = Nothing /\ files'[x].by = p)
  PROVE  AP!Next
  <1> DEFINE proof == want[p].proof
             report == want[p].report
  <1>0. \A k \in {"proof", "report"} : File(p, k) # Nothing /\ File(p, k).by = p
    BY FileNames
  <1>1. proof \in Paths \union {NoPath} /\ report \in Paths \union {NoPath}
    BY DEF OutputInv, TypeOK, Outputs
  <1>2. /\ pc' = [pc EXCEPT ![p] = "done"] /\ pc'[p] = "done"
      /\ pc \in [Runs -> Running \union {"idle", "done", "failed", "stuck", "killed"}]
    BY DEF OutputInv, TypeOK, Goto
  <1>3. /\ report # NoPath => files'[report] = File(p, "report")
        /\ proof # NoPath => files'[proof] = File(p, "proof")
    BY <1>2 DEF OutputInv, Kept, KeptBy
  <1>4. \A x \in Paths : files'[x] # Nothing /\ files'[x].by = p => x \in {proof, report}
    BY <1>2 DEF OutputInv, Owned
  <1>5. /\ outcome[p] = "pending"
        /\ outcome' = [outcome EXCEPT ![p] = "committed"]
    BY OutcomeMoves DEF OutcomeAt
  <1>6. proof = NoPath \/ proof # report
    BY <1>1, <1>3, FilesDiffer
  <1>7. \A x \in {proof, report} \ {NoPath} : published[x] = Nothing
    <2> SUFFICES ASSUME NEW x \in {proof, report} \ {NoPath}, files[x] # Nothing
                 PROVE  pc[files[x].by] # "done"
      BY <1>1 DEF published
    <2>1. files'[x] = files[x] /\ x \in Paths
      BY <1>1
    <2>2. CASE x = proof
      BY <1>0, <1>3, <2>1, <2>2
    <2>3. CASE x = report
      BY <1>0, <1>3, <2>1, <2>3
    <2> QED BY <2>2, <2>3
  <1>8. \A x \in Paths : published'[x] = CASE x = proof  -> File(p, "proof")
                                           [] x = report -> File(p, "report")
                                           [] OTHER      -> published[x]
    <2> SUFFICES ASSUME NEW x \in Paths
                 PROVE  published'[x] = CASE x = proof  -> File(p, "proof")
                                          [] x = report -> File(p, "report")
                                          [] OTHER      -> published[x]
      OBVIOUS
    <2>1. published'[x] = IF files'[x] # Nothing /\ pc'[files'[x].by] = "done" THEN files'[x] ELSE Nothing
      BY DEF published
    <2>2. published[x] = IF files[x] # Nothing /\ pc[files[x].by] = "done" THEN files[x] ELSE Nothing
      BY DEF published
    <2>3. CASE x = proof
      <3>1. files'[x] = File(p, "proof")
        BY <2>3, <1>3, PathsAssumption
      <3>2. published'[x] = File(p, "proof")
        BY <2>1, <3>1, <1>0, <1>2
      <3> QED BY <2>3, <3>2, <1>6, PathsAssumption
    <2>4. CASE x # proof /\ x = report
      <3>1. files'[x] = File(p, "report")
        BY <2>4, <1>3, PathsAssumption
      <3>2. published'[x] = File(p, "report")
        BY <2>1, <3>1, <1>0, <1>2
      <3> QED BY <2>4, <3>2
    <2>5. CASE x # proof /\ x # report
      <3>1. files'[x] = Nothing \/ files'[x].by # p
        BY <2>5, <1>4
      <3>2. files[x] # Nothing => files[x].by \in Runs /\ files'[x] = files[x]
        BY DEF OutputInv, TypeOK
      <3>3. files[x] = Nothing => files'[x] = Nothing
        BY <3>1
      <3> QED BY <2>1, <2>2, <2>5, <3>1, <3>2, <3>3, <1>2
    <2> QED BY <2>3, <2>4, <2>5
  <1>9. published' = [x \in Paths |-> CASE x = proof  -> AP!File(p, "proof")
                                        [] x = report -> AP!File(p, "report")
                                        [] OTHER      -> published[x]]
    BY <1>8 DEF published, AP!File, File
  <1>10. AP!Publish(p, proof, report)
    BY <1>5, <1>6, <1>7, <1>9 DEF AP!Publish
  <1> QED BY <1>1, <1>10 DEF AP!Next

LEMMA InitMaps == Init => AP!Init
  BY DEF Init, AP!Init, published, outcome

LEMMA StepMaps == OutputInv /\ OutputInv' /\ [Next]_vars => [AP!Next]_AP!vars
  <1> SUFFICES ASSUME OutputInv, OutputInv', [Next]_vars
               PROVE  [AP!Next]_AP!vars
    OBVIOUS
  <1>1. CASE UNCHANGED vars
    BY <1>1 DEF vars, AP!vars, published, outcome
  <1>2. ASSUME NEW p \in Runs, NEW l, Goto(p, l), files' = files, pc[p] # "done", l # "done",
               \/ OutcomeAt(l) = OutcomeAt(pc[p])
               \/ OutcomeAt(pc[p]) = "pending" /\ OutcomeAt(l) = "failed"
        PROVE  [AP!Next]_AP!vars
    BY <1>2, StoreStays, MoveMaps
  <1>3. ASSUME NEW p \in Runs,
               \/ \E w \in Outputs : Begin(p, w)
               \/ CheckProof(p) \/ CheckReport(p) \/ Prove(p) \/ RecheckProof(p)
               \/ RecheckReport(p) \/ ReportFails(p)
        PROVE  [AP!Next]_AP!vars
    BY <1>2, <1>3 DEF Begin, CheckProof, CheckReport, Prove, RecheckProof, RecheckReport,
                      ReportFails, WithoutReport, Absent, OutcomeAt
  <1>4. ASSUME NEW p \in Runs, ProofFails(p) \/ RollBackFails(p) \/ Kill(p)
        PROVE  [AP!Next]_AP!vars
    BY <1>2, <1>4 DEF ProofFails, WithoutProof, RollBackFails, Kill, Running, OutcomeAt
  <1>5. ASSUME NEW p \in Runs, PublishReport(p) \/ PrintReport(p)
        PROVE  [AP!Next]_AP!vars
    <2>1. /\ Goto(p, AfterReport(p)) /\ pc[p] = "publish report" /\ want' = want
          /\ AfterReport(p) \in {"done", "publish proof"}
      BY <1>5 DEF PublishReport, PrintReport, Link, AfterReport
    <2>2. \A x \in Paths : files'[x] = files[x] \/ (files[x] = Nothing /\ files'[x].by = p)
      BY <1>5, FileNames DEF PublishReport, PrintReport, Link, Free, OutputInv, TypeOK
    <2>3. CASE AfterReport(p) = "done"
      BY <2>1, <2>2, <2>3, DoneMaps
    <2>4. CASE AfterReport(p) = "publish proof"
      <3>1. published' = published
        BY <2>1, <2>2, <2>4, StoreStays
      <3> QED BY <2>1, <2>4, <3>1, MoveMaps DEF OutcomeAt
    <2> QED BY <2>1, <2>3, <2>4
  <1>6. ASSUME NEW p \in Runs, PublishProof(p)
        PROVE  [AP!Next]_AP!vars
    <2>1. \A x \in Paths : files'[x] = files[x] \/ (files[x] = Nothing /\ files'[x].by = p)
      BY <1>6, FileNames DEF PublishProof, Link, Free, OutputInv, TypeOK
    <2> QED BY <1>6, <2>1, DoneMaps DEF PublishProof, Link
  <1>7. ASSUME NEW p \in Runs, RollBack(p)
        PROVE  [AP!Next]_AP!vars
    <2>1. /\ Goto(p, "failed") /\ pc[p] = "roll back"
          /\ want[p].report \in Paths /\ files[want[p].report] = File(p, "report")
          /\ files' = [files EXCEPT ![want[p].report] = Nothing]
      BY <1>7 DEF RollBack, OutputInv, TypeOK, Kept, KeptBy, Outputs
    <2>2. \A x \in Paths : files'[x] = files[x] \/ (files[x].by = p /\ files'[x] = Nothing)
      <3>1. File(p, "report").by = p
        BY FileNames
      <3> QED BY <2>1, <3>1 DEF OutputInv, TypeOK
    <2>3. published' = published
      BY <2>1, <2>2, StoreStays
    <2> QED BY <2>1, <2>3, MoveMaps DEF OutcomeAt
  <1>8. ASSUME NEW x \in Paths, ClearAway(x)
        PROVE  [AP!Next]_AP!vars
    BY <1>8 DEF ClearAway, AP!vars, published, outcome, OutputInv, TypeOK
  <1> QED BY <1>1, <1>3, <1>4, <1>5, <1>6, <1>7, <1>8 DEF Next

(* Read by its commit markers, the file system only ever sees whole        *)
(* publications, under free names, that stay.                              *)
THEOREM Atomic == Spec => ImplementsAtomic
  <1> QED BY InitMaps, StepMaps, Invariance, PTL DEF Spec, AP!Spec, ImplementsAtomic
=============================================================================
