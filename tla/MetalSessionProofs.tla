------------------------ MODULE MetalSessionProofs ------------------------
(* The persistent Metal prover session reuses what a verified request of    *)
(* the same identity left, and nothing else, and its frames and outputs say *)
(* the same. Proved for any number of requests, kinds, layouts and cache    *)
(* entries. What a cache evicts plays no part in it: entries only leave or  *)
(* come in by a commit, and a commit comes after the verification.          *)
EXTENDS MetalSession, FiniteSetTheorems, TLAPS

AtWork == Borrowed \union {"admitting", "linking", "finishing", "answering", "failed"}
Past == {"checking", "publishing", "linking", "finishing"}

(* Which transactions are open at each point of a request.                  *)
Control ==
  /\ pc \in AtWork => Number # 0
  /\ own # NoOne => pc \in {"placing", "dead"} /\ planUse.st = "none"
  /\ hostUse.st # "none" => pc \in Borrowed \union {"linking", "finishing", "dead"}
  /\ pc \in Borrowed \union {"linking", "finishing"} => hostUse.st # "none"
  /\ planUse.st # "none" => pc \in {"placing", "preparing", "proving", "dead"}
  /\ pc \in {"preparing", "proving"} => planUse.st # "none"
  /\ status \in {"pending", "borrowed"} => pc \in {"preparing", "proving", "dead"}

(* A transaction holds what a verified request of the same key made, or     *)
(* what this request made.                                                  *)
Sourced ==
  /\ verified \subseteq 1 .. Number
  /\ pc \in Past => Number \in verified
  /\ hostUse.st = "hit" => hostUse.made \in verified /\ asked[hostUse.made] = Kind
  /\ planUse.st = "hit" => planUse.made \in verified /\ Layout[asked[planUse.made]] = Identity
  /\ hostUse.st = "pending" => hostUse.made = Number
  /\ planUse.st = "pending" => planUse.made = Number
  /\ status = "pending" => ident = Identity
  /\ status = "pending" /\ pc = "proving" => snapshot = Number /\ recipes = Number

(* What is at the output paths at each point of a request.                  *)
Shown ==
  /\ pc \in Borrowed \union {"admitting"} => \A p \in Paths : outputs[p] # "mine"
  /\ pc = "linking" => outputs["proof"] = "mine" /\ outputs["report"] # "mine"
  /\ pc \in {"finishing", "answering"} => outputs["proof"] = "mine" /\ outputs["report"] = "mine"
  /\ pc = "failed" => outputs["report"] # "mine" /\ (outputs["proof"] = "mine" => stuck)
  /\ said # "none" => pc \in {"idle", "leaving", "closed", "dead"}

Finite == IsFiniteSet(hosts) /\ IsFiniteSet(plans)

SessionInv ==
  TypeOK /\ Finite /\ Control /\ Sourced /\ OnlyVerifiedReused /\ Shown /\ OutputsHonest

LEMMA Counting ==
  /\ SessionInv => Number \in Nat
  /\ SessionInv /\ pc \in AtWork => Number \in Numbers /\ Kind \in Kinds /\ Identity \in Layouts
  BY SessionAssumption DEF SessionInv, TypeOK, Control, Number, Numbers, Kind, Identity

LEMMA FreedType ==
  ASSUME NEW was \in [Objects -> Int], NEW gone
  PROVE  Freed(was, gone) \in [Objects -> Int]
  BY DEF Freed

LEMMA MadeType ==
  ASSUME live \in [Objects -> Int], NEW x \in Objects
  PROVE  Made(x) \in [Objects -> Int]
  BY DEF Made

LEMMA Entered ==
  ASSUME NEW entries, NEW use, NEW k, NEW e \in Committed(entries, use, k)
  PROVE  e \in entries \/ e = [key |-> k, made |-> use.made, used |-> Number]
  BY DEF Committed

LEMMA NoSource ==
  ASSUME SessionInv
  PROVE  /\ pc \in {"preparing", "proving"} =>
              planUse.made \in Numbers /\ (planUse.st = "hit" \/ planUse.made = Number)
         /\ pc \in Borrowed \union {"linking", "finishing"} =>
              hostUse.made \in Numbers /\ (hostUse.st = "hit" \/ hostUse.made = Number)
  BY Counting DEF SessionInv, TypeOK, Control, Sourced, Uses, AtWork

LEMMA InitInv == Init => SessionInv
  <1> SUFFICES ASSUME Init PROVE SessionInv
    OBVIOUS
  <1>1. TypeOK
    <2>1. asked \in Seq(Kinds) /\ Number = 0
      BY DEF Init, Number
    <2>2. live \in [Objects -> Int]
      BY DEF Init
    <2>3. outputs \in [Paths -> {"none", "mine", "other"}]
      <3>1. outputs = [p \in Paths |-> "none"]
        BY DEF Init
      <3> QED BY <3>1
    <2>4. hostUse \in Uses /\ planUse \in Uses
      BY DEF Init, Uses, Idle
    <2>5. {arena, snapshot, recipes} \subseteq Numbers \union {NoOne}
      BY DEF Init
    <2>6. hosts \subseteq Entries(Kinds) /\ plans \subseteq Entries(Layouts)
          /\ verified \subseteq Numbers /\ taken \subseteq Paths
      BY DEF Init
    <2>7. Number <= MaxRequests /\ own \in {NoOne, Number}
      BY <2>1, SessionAssumption DEF Init
    <2> QED BY <2>1, <2>2, <2>3, <2>4, <2>5, <2>6, <2>7 DEF Init, TypeOK, Borrowed
  <1>2. Finite
    BY FS_EmptySet DEF Init, Finite
  <1>3. Control /\ Sourced /\ Shown
    BY DEF Init, Control, Sourced, Shown, Idle, AtWork, Past, Borrowed
  <1>4. OnlyVerifiedReused /\ OutputsHonest
    BY DEF Init, OnlyVerifiedReused, OutputsHonest, Paths
  <1> QED BY <1>1, <1>2, <1>3, <1>4 DEF SessionInv

LEMMA ReceiveStep == ASSUME SessionInv, NEW k \in Kinds, Receive(k) PROVE SessionInv'
  <1>1. TypeOK'
    <2>1. asked' \in Seq(Kinds) /\ Number' = Number + 1 /\ Number' <= MaxRequests
      BY SessionAssumption DEF SessionInv, TypeOK, Receive, Number
    <2>2. own = NoOne
      BY DEF SessionInv, Control, Receive
    <2>3. outputs' \in [Paths -> {"none", "mine", "other"}]
      BY DEF Receive
    <2> QED BY <2>1, <2>2, <2>3 DEF SessionInv, TypeOK, Receive, Borrowed, geometry, state
  <1>2. Finite'
    BY DEF SessionInv, Receive, Finite, geometry
  <1>3. Control'
    BY DEF SessionInv, Receive, Control, Borrowed, Number, geometry, state
  <1>4. Sourced'
    BY DEF SessionInv, Receive, Sourced, Control, Past, Borrowed, Number, geometry, state
  <1>5. OnlyVerifiedReused'
    BY DEF SessionInv, Receive, OnlyVerifiedReused, TypeOK, Control, Sourced, Number, Entries,
           geometry, state
  <1>6. Shown'
    BY DEF SessionInv, Receive, Shown
  <1>7. OutputsHonest'
    BY DEF SessionInv, Receive, OutputsHonest, Paths
  <1> QED BY <1>1, <1>2, <1>3, <1>4, <1>5, <1>6, <1>7 DEF SessionInv

LEMMA AcquireHostStep == ASSUME SessionInv, AcquireHost PROVE SessionInv'
  <1>1. TypeOK'
    <2>1. Number' = Number /\ Number \in Numbers
      BY Counting DEF AcquireHost, Number, AtWork
    <2>2. live' \in [Objects -> Int]
      BY <2>1, MadeType DEF SessionInv, TypeOK, AcquireHost, Objects
    <2>3. hostUse' \in Uses /\ planUse' \in Uses /\ own' \in {NoOne, Number}
      BY <2>1 DEF SessionInv, TypeOK, AcquireHost, Entries, Uses, Hit, Pending, Find
    <2> QED BY <2>1, <2>2, <2>3 DEF SessionInv, TypeOK, AcquireHost, Borrowed, state, files
  <1>2. Finite'
    BY FS_RemoveElement, FS_Subset, FS_AddElement DEF SessionInv, AcquireHost, Finite
  <1>3. Control'
    BY DEF SessionInv, AcquireHost, Control, AtWork, Borrowed, Number, Hit, Pending, geometry, state
  <1>4. Sourced'
    BY DEF SessionInv, AcquireHost, Sourced, Past, Number, Kind, Identity, Hit, Pending, Find,
           OnlyVerifiedReused, geometry, state
  <1>5. OnlyVerifiedReused'
    BY DEF SessionInv, AcquireHost, OnlyVerifiedReused, Control, geometry, state
  <1>6. Shown'
    BY DEF SessionInv, AcquireHost, Shown, files
  <1>7. OutputsHonest'
    BY DEF SessionInv, AcquireHost, OutputsHonest, files
  <1> QED BY <1>1, <1>2, <1>3, <1>4, <1>5, <1>6, <1>7 DEF SessionInv

LEMMA FindPlanStep == ASSUME SessionInv, FindPlan PROVE SessionInv'
  <1>1. TypeOK'
    <2>1. Number' = Number /\ Number \in Numbers
      BY Counting DEF FindPlan, Number, AtWork, Borrowed
    <2>2. live' \in [Objects -> Int]
      BY <2>1, MadeType DEF SessionInv, TypeOK, FindPlan, Objects
    <2>3. hostUse' \in Uses /\ planUse' \in Uses /\ own' \in {NoOne, Number}
      BY <2>1 DEF SessionInv, TypeOK, FindPlan, Entries, Uses, Hit, Pending, Find
    <2> QED BY <2>1, <2>2, <2>3 DEF SessionInv, TypeOK, FindPlan, Borrowed, state, files
  <1>2. Finite'
    BY FS_RemoveElement, FS_Subset, FS_AddElement DEF SessionInv, FindPlan, Finite
  <1>3. Control'
    BY DEF SessionInv, FindPlan, Control, AtWork, Borrowed, Number, geometry, state
  <1>4. Sourced'
    BY DEF SessionInv, FindPlan, Sourced, Past, Number, Kind, Identity, Hit, Find,
           OnlyVerifiedReused, geometry, state
  <1>5. OnlyVerifiedReused'
    BY DEF SessionInv, FindPlan, OnlyVerifiedReused, Control, geometry, state
  <1>6. Shown'
    BY DEF SessionInv, FindPlan, Shown, TypeOK, files
  <1>7. OutputsHonest'
    BY DEF SessionInv, FindPlan, OutputsHonest, files
  <1> QED BY <1>1, <1>2, <1>3, <1>4, <1>5, <1>6, <1>7 DEF SessionInv

LEMMA RestoreStep == ASSUME SessionInv, Restore PROVE SessionInv'
  <1>1. TypeOK'
    BY DEF SessionInv, Restore, TypeOK, Borrowed, Number, geometry, state, files
  <1>2. Finite'
    BY DEF SessionInv, Restore, Finite, geometry, state
  <1>3. Control'
    BY DEF SessionInv, Restore, Reusable, Control, AtWork, Borrowed, Number, geometry, state
  <1>4. Sourced'
    BY DEF SessionInv, Restore, Sourced, Past, Number, Kind, Identity, geometry, state
  <1>5. OnlyVerifiedReused'
    BY DEF SessionInv, Restore, Reusable, OnlyVerifiedReused, Sourced, Number, Kind, Identity,
           geometry, state
  <1>6. Shown'
    BY DEF SessionInv, Restore, Shown, TypeOK, state, files
  <1>7. OutputsHonest'
    BY DEF SessionInv, Restore, OutputsHonest, state, files
  <1> QED BY <1>1, <1>2, <1>3, <1>4, <1>5, <1>6, <1>7 DEF SessionInv

LEMMA PlaceStep == ASSUME SessionInv, Place PROVE SessionInv'
  <1>1. TypeOK'
    <2>1. Number' = Number /\ Number \in Numbers /\ Identity \in Layouts
      BY Counting DEF Place, Number, AtWork, Borrowed
    <2>2. live' \in [Objects -> Int]
      BY <2>1, MadeType, FreedType DEF SessionInv, TypeOK, Place, Objects
    <2>3. planUse' \in Uses /\ own' \in {NoOne, Number}
      BY <2>1 DEF SessionInv, TypeOK, Place, Uses, Pending, HandedOver
    <2> QED BY <2>1, <2>2, <2>3 DEF SessionInv, TypeOK, Place, Borrowed, files
  <1>2. Finite'
    BY DEF SessionInv, Place, Finite, geometry, state
  <1>3. Control'
    BY DEF SessionInv, Place, HandedOver, Control, AtWork, Borrowed, Number, Pending, geometry,
           state
  <1>4. Sourced'
    BY DEF SessionInv, Place, Sourced, Past, Number, Kind, Identity, Pending, geometry, state
  <1>5. OnlyVerifiedReused'
    BY DEF SessionInv, Place, OnlyVerifiedReused, Number, geometry, state
  <1>6. Shown'
    BY DEF SessionInv, Place, Shown, TypeOK, geometry, state, files
  <1>7. OutputsHonest'
    BY DEF SessionInv, Place, OutputsHonest, geometry, state, files
  <1> QED BY <1>1, <1>2, <1>3, <1>4, <1>5, <1>6, <1>7 DEF SessionInv

LEMMA InstallStep == ASSUME SessionInv, Install PROVE SessionInv'
  <1>1. TypeOK'
    BY DEF SessionInv, Install, TypeOK, Borrowed, Number, Numbers, NoOne, geometry, state, files
  <1>2. Finite'
    BY DEF SessionInv, Install, Finite, geometry, state
  <1>3. Control'
    BY DEF SessionInv, Install, Control, AtWork, Borrowed, Number, geometry, state
  <1>4. Sourced'
    BY DEF SessionInv, Install, Sourced, Past, Number, Kind, Identity, OnlyVerifiedReused, geometry,
           state
  <1>5. OnlyVerifiedReused'
    BY DEF SessionInv, Install, OnlyVerifiedReused, Number, geometry, state
  <1>6. Shown'
    BY DEF SessionInv, Install, Shown, TypeOK, state, files
  <1>7. OutputsHonest'
    BY DEF SessionInv, Install, OutputsHonest, state, files
  <1> QED BY <1>1, <1>2, <1>3, <1>4, <1>5, <1>6, <1>7 DEF SessionInv

LEMMA BorrowStep == ASSUME SessionInv, Borrow PROVE SessionInv'
  <1>1. TypeOK'
    BY DEF SessionInv, Borrow, TypeOK, Borrowed, Number, geometry, state, files
  <1>2. Finite'
    BY DEF SessionInv, Borrow, Finite, geometry
  <1>3. Control'
    BY DEF SessionInv, Borrow, Control, AtWork, Borrowed, Number, geometry
  <1>4. Sourced'
    BY DEF SessionInv, Borrow, Sourced, Past, Number, Kind, Identity, geometry, state
  <1>5. OnlyVerifiedReused'
    BY DEF SessionInv, Borrow, OnlyVerifiedReused, Number, Kind, Identity, geometry, state
  <1>6. Shown'
    BY DEF SessionInv, Borrow, Shown, TypeOK, files
  <1>7. OutputsHonest'
    BY DEF SessionInv, Borrow, OutputsHonest, files
  <1> QED BY <1>1, <1>2, <1>3, <1>4, <1>5, <1>6, <1>7 DEF SessionInv

LEMMA CommitStateStep == ASSUME SessionInv, CommitState PROVE SessionInv'
  <1>1. TypeOK'
    <2>1. live' \in [Objects -> Int]
      BY FreedType DEF SessionInv, TypeOK, CommitState
    <2>2. Number' = Number /\ Number \in Numbers /\ Identity \in Layouts
      BY Counting DEF CommitState, Number, AtWork, Borrowed
    <2>3. planUse.made \in Numbers
      BY <2>2, NoSource DEF SessionInv, CommitState
    <2>4. plans' \subseteq Entries(Layouts)
      BY <2>2, <2>3, Entered DEF SessionInv, TypeOK, CommitState, Entries
    <2>5. planUse' \in Uses
      BY DEF CommitState, Idle, Uses
    <2> QED BY <2>1, <2>2, <2>4, <2>5 DEF SessionInv, TypeOK, CommitState, Borrowed, files
  <1>2. Finite'
    BY FS_Subset, FS_AddElement DEF SessionInv, CommitState, Committed, Finite, geometry, state
  <1>3. Control'
    BY DEF SessionInv, CommitState, Control, AtWork, Borrowed, Number, Idle, geometry, state
  <1>4. Sourced'
    <2>1. Number' = Number /\ Number \in Nat /\ Number # 0 /\ Kind' = Kind /\ Identity' = Identity
      BY Counting DEF SessionInv, Control, CommitState, Number, Kind, Identity, AtWork, Borrowed
    <2> QED BY <2>1 DEF SessionInv, Sourced, Control, CommitState, Past, Idle, Borrowed
  <1>5. OnlyVerifiedReused'
    <2>1. Number' = Number /\ Identity' = Identity /\ Identity = Layout[asked[Number]]
      BY DEF CommitState, Number, Kind, Identity
    <2>2. planUse.made \in verified' /\ Layout[asked[planUse.made]] = Identity
      BY <2>1, NoSource DEF SessionInv, CommitState, Sourced
    <2>3. ASSUME NEW e \in plans'
          PROVE  e.made \in verified' /\ Layout[asked'[e.made]] = e.key
      BY <2>2, Entered DEF SessionInv, OnlyVerifiedReused, CommitState
    <2>4. arena # NoOne =>
            /\ arena \in verified' /\ snapshot = arena /\ recipes = arena
            /\ Layout[asked[arena]] = ident
      BY <2>1 DEF SessionInv, OnlyVerifiedReused, Sourced, CommitState
    <2> QED BY <2>3, <2>4 DEF SessionInv, OnlyVerifiedReused, CommitState
  <1>6. Shown'
    BY DEF SessionInv, CommitState, Shown, TypeOK, geometry, state, files
  <1>7. OutputsHonest'
    BY DEF SessionInv, CommitState, OutputsHonest, geometry, state, files
  <1> QED BY <1>1, <1>2, <1>3, <1>4, <1>5, <1>6, <1>7 DEF SessionInv

LEMMA CheckAbsentStep == ASSUME SessionInv, CheckAbsent PROVE SessionInv'
  <1>1. TypeOK'
    BY DEF SessionInv, CheckAbsent, TypeOK, Borrowed, Number, geometry, state, files
  <1>2. Finite'
    BY DEF SessionInv, CheckAbsent, Finite, geometry
  <1>3. Control'
    BY DEF SessionInv, CheckAbsent, Control, AtWork, Borrowed, Number, geometry, state
  <1>4. Sourced'
    BY DEF SessionInv, CheckAbsent, Sourced, Past, Number, Kind, Identity, geometry, state
  <1>5. OnlyVerifiedReused'
    BY DEF SessionInv, CheckAbsent, OnlyVerifiedReused, Control, geometry, state
  <1>6. Shown'
    BY DEF SessionInv, CheckAbsent, Shown, files
  <1>7. OutputsHonest'
    BY DEF SessionInv, CheckAbsent, OutputsHonest, files
  <1> QED BY <1>1, <1>2, <1>3, <1>4, <1>5, <1>6, <1>7 DEF SessionInv

LEMMA LinkProofStep == ASSUME SessionInv, LinkProof PROVE SessionInv'
  <1>1. TypeOK'
    BY DEF SessionInv, LinkProof, Link, TypeOK, Number, Control, geometry, state
  <1>2. Finite'
    BY DEF SessionInv, LinkProof, Finite, geometry
  <1>3. Control'
    BY DEF SessionInv, LinkProof, Control, AtWork, Number, TypeOK, geometry, state
  <1>4. Sourced'
    BY DEF SessionInv, LinkProof, Sourced, Past, Number, Kind, Identity, geometry, state
  <1>5. OnlyVerifiedReused'
    BY DEF SessionInv, LinkProof, OnlyVerifiedReused, Control, geometry, state
  <1>6. Shown'
    BY DEF SessionInv, LinkProof, Link, Shown, Borrowed, Paths, TypeOK
  <1>7. OutputsHonest'
    BY DEF SessionInv, LinkProof, Link, OutputsHonest, Shown
  <1> QED BY <1>1, <1>2, <1>3, <1>4, <1>5, <1>6, <1>7 DEF SessionInv

LEMMA LinkReportStep == ASSUME SessionInv, LinkReport PROVE SessionInv'
  <1>1. TypeOK'
    BY DEF SessionInv, LinkReport, Link, TypeOK, Number, Control, geometry, state
  <1>2. Finite'
    BY DEF SessionInv, LinkReport, Finite, geometry
  <1>3. Control'
    BY DEF SessionInv, LinkReport, Control, AtWork, Number, geometry, state
  <1>4. Sourced'
    BY DEF SessionInv, LinkReport, Sourced, Past, Number, Kind, Identity, geometry, state
  <1>5. OnlyVerifiedReused'
    BY DEF SessionInv, LinkReport, OnlyVerifiedReused, Control, geometry, state
  <1>6. Shown'
    BY DEF SessionInv, LinkReport, Link, Shown, Borrowed, Paths, TypeOK
  <1>7. OutputsHonest'
    BY DEF SessionInv, LinkReport, Link, OutputsHonest, Shown
  <1> QED BY <1>1, <1>2, <1>3, <1>4, <1>5, <1>6, <1>7 DEF SessionInv

LEMMA WithdrawStep == ASSUME SessionInv, Withdraw PROVE SessionInv'
  <1>1. TypeOK'
    <2>1. live' \in [Objects -> Int]
      BY FreedType DEF SessionInv, TypeOK, Withdraw, Poison
    <2>2. outputs' \in [Paths -> {"none", "mine", "other"}]
      BY DEF SessionInv, TypeOK, Withdraw
    <2> QED BY <2>1, <2>2
               DEF SessionInv, TypeOK, Withdraw, Poison, Unstage, Idle, Uses, Find, Borrowed, Number
  <1>2. Finite'
    BY FS_Subset DEF SessionInv, Withdraw, Poison, Finite, geometry, state, files
  <1>3. Control'
    BY DEF SessionInv, Withdraw, Poison, Unstage, Control, AtWork, Borrowed, Number, Idle, geometry,
           state
  <1>4. Sourced'
    BY DEF SessionInv, Withdraw, Poison, Unstage, Sourced, Past, Number, Idle, geometry, state
  <1>5. OnlyVerifiedReused'
    BY DEF SessionInv, Withdraw, Poison, OnlyVerifiedReused, geometry, state
  <1>6. Shown'
    BY DEF SessionInv, Withdraw, Shown, Borrowed, Paths, TypeOK, geometry, state, files
  <1>7. OutputsHonest'
    BY DEF SessionInv, Withdraw, OutputsHonest, Shown, Paths, TypeOK, geometry, state
  <1> QED BY <1>1, <1>2, <1>3, <1>4, <1>5, <1>6, <1>7 DEF SessionInv

LEMMA FinishStep == ASSUME SessionInv, Finish PROVE SessionInv'
  <1>1. TypeOK'
    BY DEF SessionInv, Finish, Committed, Freed, TypeOK, Entries, Uses, Idle, Number, Numbers,
           NoOne, Control, AtWork, Sourced, Kind, geometry, state, files
  <1>2. Finite'
    BY FS_Subset, FS_AddElement DEF SessionInv, Finish, Committed, Finite
  <1>3. Control'
    BY DEF SessionInv, Finish, Control, AtWork, Borrowed, Number, Idle, geometry, state
  <1>4. Sourced'
    BY DEF SessionInv, Finish, Sourced, Past, Number, Kind, Identity, Idle, geometry, state
  <1>5. OnlyVerifiedReused'
    <2>1. hostUse.made \in verified /\ asked[hostUse.made] = Kind
      BY NoSource DEF SessionInv, Finish, Sourced, Past, Kind
    <2>2. ASSUME NEW e \in hosts'
          PROVE  e.made \in verified' /\ asked'[e.made] = e.key
      BY <2>1, Entered DEF SessionInv, OnlyVerifiedReused, Finish
    <2> QED BY <2>2 DEF SessionInv, OnlyVerifiedReused, Finish, state, Number
  <1>6. Shown'
    BY DEF SessionInv, Finish, Shown, Borrowed, files
  <1>7. OutputsHonest'
    BY DEF SessionInv, Finish, OutputsHonest, files
  <1> QED BY <1>1, <1>2, <1>3, <1>4, <1>5, <1>6, <1>7 DEF SessionInv

LEMMA FailStep == ASSUME SessionInv, Fail PROVE SessionInv'
  <1>1. TypeOK'
    BY DEF SessionInv, Fail, Poison, Unstage, Freed, TypeOK, Uses, Idle, Number, geometry, state,
           files
  <1>2. Finite'
    BY FS_Subset DEF SessionInv, Fail, Poison, Finite, geometry, state
  <1>3. Control'
    BY DEF SessionInv, Fail, Poison, Unstage, Control, AtWork, Borrowed, Number, Idle, geometry,
           state
  <1>4. Sourced'
    BY DEF SessionInv, Fail, Poison, Unstage, Sourced, Past, Number, Idle, geometry, state
  <1>5. OnlyVerifiedReused'
    BY DEF SessionInv, Fail, Poison, OnlyVerifiedReused, geometry, state
  <1>6. Shown'
    BY DEF SessionInv, Fail, Shown, Borrowed, Paths, geometry, state, files
  <1>7. OutputsHonest'
    BY DEF SessionInv, Fail, OutputsHonest, geometry, state, files
  <1> QED BY <1>1, <1>2, <1>3, <1>4, <1>5, <1>6, <1>7 DEF SessionInv

LEMMA LeaveStep == ASSUME SessionInv, Leave PROVE SessionInv'
  <1>1. TypeOK'
    <2>1. live' \in [Objects -> Int]
      <3>1. ASSUME NEW o \in Objects PROVE Held(o) \in Int
        <4>1. /\ IsFiniteSet({e \in hosts : o = <<"host", e.made>>})
              /\ IsFiniteSet({e \in plans : o = <<"plan", e.made>>})
          BY FS_Subset DEF SessionInv, Finite
        <4> QED BY <4>1, FS_CardinalityType DEF Held
      <3> QED BY <3>1 DEF SessionInv, TypeOK, Leave
    <2> QED BY <2>1 DEF SessionInv, TypeOK, Leave, Idle, Uses, Borrowed, Number, Entries, files
  <1>2. Finite'
    BY FS_Subset DEF SessionInv, Leave, Finite, geometry, state
  <1>3. Control'
    BY DEF SessionInv, Leave, Control, AtWork, Borrowed, Idle, geometry, state
  <1>4. Sourced'
    BY DEF SessionInv, Leave, Sourced, Past, Number, Kind, Identity, Idle, geometry, state
  <1>5. OnlyVerifiedReused'
    BY DEF SessionInv, Leave, OnlyVerifiedReused, Control, geometry, state
  <1>6. Shown'
    BY DEF SessionInv, Leave, Shown, Borrowed, geometry, state
  <1>7. OutputsHonest'
    BY DEF SessionInv, Leave, OutputsHonest, geometry, state, files
  <1> QED BY <1>1, <1>2, <1>3, <1>4, <1>5, <1>6, <1>7 DEF SessionInv

LEMMA TakeStep == ASSUME SessionInv, NEW p \in Paths, Take(p) PROVE SessionInv'
  <1>1. TypeOK'
    BY DEF SessionInv, Take, TypeOK, Number, geometry, state
  <1>2. Finite'
    BY DEF SessionInv, Take, Finite, geometry
  <1>3. Control'
    BY DEF SessionInv, Take, Control, Number, geometry, state
  <1>4. Sourced'
    BY DEF SessionInv, Take, Sourced, Number, Kind, Identity, geometry, state
  <1>5. OnlyVerifiedReused'
    BY DEF SessionInv, Take, OnlyVerifiedReused, Number, Kind, Identity, geometry, state
  <1>6. Shown'
    BY DEF SessionInv, Take, Shown
  <1>7. OutputsHonest'
    BY DEF SessionInv, Take, OutputsHonest, TypeOK
  <1> QED BY <1>1, <1>2, <1>3, <1>4, <1>5, <1>6, <1>7 DEF SessionInv

(* What only moves the process on, or tells the client.                    *)
LEMMA MoveStep ==
  ASSUME SessionInv, Stop \/ Answer \/ Refuse \/ ErrorFrame \/ Kill
  PROVE  SessionInv'
  <1>1. TypeOK'
    <2>1. CASE Stop
      BY <2>1 DEF SessionInv, Stop, TypeOK, Number, geometry, state, files
    <2>2. CASE Answer
      BY <2>2 DEF SessionInv, Answer, TypeOK, Number, geometry, state, files
    <2>3. CASE Refuse
      BY <2>3 DEF SessionInv, Refuse, TypeOK, Number, geometry, state, files
    <2>4. CASE ErrorFrame
      BY <2>4 DEF SessionInv, ErrorFrame, TypeOK, Number, geometry, state, files
    <2>5. CASE Kill
      BY <2>5 DEF SessionInv, Kill, TypeOK, Number, geometry, state, files
    <2> QED BY <2>1, <2>2, <2>3, <2>4, <2>5
  <1>2. Finite'
    BY DEF SessionInv, Stop, Answer, Refuse, ErrorFrame, Kill, Finite, geometry
  <1>3. Control'
    BY DEF SessionInv, Stop, Answer, Refuse, ErrorFrame, Kill, Control, AtWork, Borrowed, Number,
           geometry, state
  <1>4. Sourced'
    BY DEF SessionInv, Stop, Answer, Refuse, ErrorFrame, Kill, Sourced, Past, Number, Kind,
           Identity, geometry, state
  <1>5. OnlyVerifiedReused'
    BY DEF SessionInv, Stop, Answer, Refuse, ErrorFrame, Kill, OnlyVerifiedReused, Number, geometry,
           state
  <1>6. Shown'
    BY DEF SessionInv, Stop, Answer, Refuse, ErrorFrame, Kill, Shown, Borrowed, Paths, files
  <1>7. OutputsHonest'
    BY DEF SessionInv, Stop, Answer, Refuse, ErrorFrame, Kill, OutputsHonest, Shown, Paths, TypeOK,
           files
  <1> QED BY <1>1, <1>2, <1>3, <1>4, <1>5, <1>6, <1>7 DEF SessionInv

LEMMA StutterStep == ASSUME SessionInv, UNCHANGED vars PROVE SessionInv'
  <1>1. TypeOK'
    BY DEF SessionInv, vars, TypeOK, Number, geometry, state, files
  <1>2. Finite'
    BY DEF SessionInv, vars, Finite, geometry
  <1>3. Control'
    BY DEF SessionInv, vars, Control, Number, geometry, state
  <1>4. Sourced'
    BY DEF SessionInv, vars, Sourced, Number, Kind, Identity, geometry, state
  <1>5. OnlyVerifiedReused'
    BY DEF SessionInv, vars, OnlyVerifiedReused, Number, Kind, Identity, geometry, state
  <1>6. Shown'
    BY DEF SessionInv, vars, Shown, files
  <1>7. OutputsHonest'
    BY DEF SessionInv, vars, OutputsHonest, files
  <1> QED BY <1>1, <1>2, <1>3, <1>4, <1>5, <1>6, <1>7 DEF SessionInv

LEMMA SessionStep ==
  ASSUME SessionInv, [Next]_vars
  PROVE  SessionInv'
  BY ReceiveStep, AcquireHostStep, FindPlanStep, RestoreStep, PlaceStep, InstallStep,
     BorrowStep, CommitStateStep, CheckAbsentStep, LinkProofStep, LinkReportStep,
     WithdrawStep, FinishStep, FailStep, LeaveStep, TakeStep, MoveStep, StutterStep
     DEF Next

(* The invariant holds in every reachable state.                            *)
THEOREM SessionSafe == Spec => []SessionInv
  BY InitInv, SessionStep, PTL DEF Spec

-----------------------------------------------------------------------------
(* Who owns what. An object that this request made is in no cache before    *)
(* the commit, and entries of a cache differ in key and in maker, so each   *)
(* object is with one owner at most; the ledger follows.                    *)

Distinct(entries) ==
  \A d, e \in entries : d.key = e.key \/ d.made = e.made => d = e

NoHostYet == {"admitting", "linking", "finishing"} \union Borrowed
NoPlanYet == {"admitting", "finding", "placing", "preparing", "proving"}
NoArenaYet == {"admitting", "finding", "placing"}

(* Made by this request: in no cache yet.                                   *)
Fresh ==
  /\ pc \in NoHostYet => \A e \in hosts : e.made # Number
  /\ pc \in NoPlanYet => \A e \in plans : e.made # Number
  /\ pc \in NoArenaYet => arena # Number
  /\ arena <= Number

(* An open transaction is about an entry, or about a key without one.       *)
Open ==
  /\ hostUse.st = "hit" => \E e \in hosts : e.key = Kind /\ e.made = hostUse.made
  /\ planUse.st = "hit" => \E e \in plans : e.key = Identity /\ e.made = planUse.made
  /\ hostUse.st = "pending" => \A e \in hosts : e.key # Kind
  /\ planUse.st = "pending" \/ own # NoOne => \A e \in plans : e.key # Identity
  /\ pc = "placing" /\ planUse.st # "hit" => own = Number

Apart == Distinct(hosts) /\ Distinct(plans) /\ Fresh /\ Open

HostOwned(n) == (\E e \in hosts : e.made = n) \/ (hostUse.st = "pending" /\ hostUse.made = n)
PlanOwned(n) ==
  (\E e \in plans : e.made = n) \/ (planUse.st = "pending" /\ planUse.made = n) \/ own = n
ArenaOwned(n) == arena = n

One(b) == IF b THEN 1 ELSE 0

(* What was made and not freed is what somebody owns.                       *)
Ledger ==
  pc # "dead" => \A n \in Numbers :
    /\ live[<<"host", n>>] = One(HostOwned(n))
    /\ live[<<"plan", n>>] = One(PlanOwned(n))
    /\ live[<<"arena", n>>] = One(ArenaOwned(n))

OwnerInv == SessionInv /\ Apart /\ Ledger

MadeBy(entries, n) == {e \in entries : e.made = n}

LEMMA OneNamed ==
  ASSUME NEW entries, Distinct(entries), NEW n
  PROVE  /\ (\E e \in entries : e.made = n) => Cardinality(MadeBy(entries, n)) = 1
         /\ (\A e \in entries : e.made # n) => Cardinality(MadeBy(entries, n)) = 0
  <1>1. CASE \E e \in entries : e.made = n
    <2>1. PICK e \in entries : e.made = n
      BY <1>1
    <2>2. MadeBy(entries, n) = {e}
      BY <2>1 DEF Distinct, MadeBy
    <2>3. Cardinality({e}) = 1
      BY FS_Singleton
    <2> QED BY <1>1, <2>2, <2>3
  <1>2. CASE ~\E e \in entries : e.made = n
    <2>1. MadeBy(entries, n) = {}
      BY <1>2 DEF MadeBy
    <2> QED BY <1>2, <2>1, FS_EmptySet
  <1> QED BY <1>1, <1>2

LEMMA NoneNamed ==
  ASSUME NEW entries, NEW label, NEW other, label # other, NEW n
  PROVE  Cardinality({e \in entries : <<other, n>> = <<label, e.made>>}) = 0
  <1>1. {e \in entries : <<other, n>> = <<label, e.made>>} = {}
    OBVIOUS
  <1> QED BY <1>1, FS_EmptySet

(* Owners are counted by Held, and there is one at most.                    *)
LEMMA HeldOnce ==
  ASSUME SessionInv, Apart, pc # "dead", NEW n \in Numbers
  PROVE  /\ Held(<<"host", n>>) = One(HostOwned(n))
         /\ Held(<<"plan", n>>) = One(PlanOwned(n))
         /\ Held(<<"arena", n>>) = One(ArenaOwned(n))
  <1> DEFINE In(entries, label, o) == Cardinality({e \in entries : o = <<label, e.made>>})
  <1>1. Distinct(hosts) /\ Distinct(plans)
    BY DEF Apart
  <1>2. n # NoOne
    BY DEF Numbers, NoOne
  <1>3. hostUse.st = "pending" /\ hostUse.made = n => ~\E e \in hosts : e.made = n
    BY DEF SessionInv, Control, Sourced, Apart, Fresh, NoHostYet
  <1>4. planUse.st = "pending" /\ planUse.made = n => own # n /\ ~\E e \in plans : e.made = n
    BY <1>2 DEF SessionInv, Control, Sourced, Apart, Fresh, NoPlanYet
  <1>5. own = n => ~\E e \in plans : e.made = n
    BY <1>2 DEF SessionInv, TypeOK, Control, Apart, Fresh, NoPlanYet
  <1>6. /\ In(hosts, "host", <<"host", n>>) = One(\E e \in hosts : e.made = n)
        /\ In(plans, "plan", <<"plan", n>>) = One(\E e \in plans : e.made = n)
    <2>1. Cardinality({e \in hosts : <<"host", n>> = <<"host", e.made>>})
            = One(\E e \in hosts : e.made = n)
      <3>1. {e \in hosts : <<"host", n>> = <<"host", e.made>>} = MadeBy(hosts, n)
        BY DEF MadeBy
      <3> QED BY <1>1, <3>1, OneNamed DEF One
    <2>2. Cardinality({e \in plans : <<"plan", n>> = <<"plan", e.made>>})
            = One(\E e \in plans : e.made = n)
      <3>1. {e \in plans : <<"plan", n>> = <<"plan", e.made>>} = MadeBy(plans, n)
        BY DEF MadeBy
      <3> QED BY <1>1, <3>1, OneNamed DEF One
    <2> QED BY <2>1, <2>2
  <1>7. /\ In(hosts, "host", <<"plan", n>>) = 0 /\ In(hosts, "host", <<"arena", n>>) = 0
        /\ In(plans, "plan", <<"host", n>>) = 0 /\ In(plans, "plan", <<"arena", n>>) = 0
    <2>1. "host" # "plan" /\ "host" # "arena" /\ "plan" # "arena"
      OBVIOUS
    <2> QED BY <2>1, NoneNamed
  <1> HIDE DEF In
  <1>8. ASSUME NEW o
        PROVE  Held(o) = In(hosts, "host", o) + In(plans, "plan", o)
                 + One(o \in Dropped("host", hostUse)) + One(o \in Dropped("plan", planUse))
                 + One(o \in OwnPlan) + One(o \in ResidentArena)
    BY DEF Held, In, One
  <1>9. Held(<<"host", n>>) = One(HostOwned(n))
    <2>1. /\ <<"host", n>> \notin Dropped("plan", planUse)
          /\ <<"host", n>> \notin OwnPlan /\ <<"host", n>> \notin ResidentArena
          /\ <<"host", n>> \in Dropped("host", hostUse) <=> hostUse.st = "pending" /\ hostUse.made = n
      BY DEF Dropped, OwnPlan, ResidentArena
    <2> QED BY <1>3, <1>6, <1>7, <1>8, <2>1 DEF One, HostOwned
  <1>10. Held(<<"plan", n>>) = One(PlanOwned(n))
    <2>1. /\ <<"plan", n>> \notin Dropped("host", hostUse) /\ <<"plan", n>> \notin ResidentArena
          /\ <<"plan", n>> \in OwnPlan <=> own = n
          /\ <<"plan", n>> \in Dropped("plan", planUse) <=> planUse.st = "pending" /\ planUse.made = n
      BY <1>2 DEF Dropped, OwnPlan, ResidentArena
    <2> QED BY <1>4, <1>5, <1>6, <1>7, <1>8, <2>1 DEF One, PlanOwned
  <1>11. Held(<<"arena", n>>) = One(ArenaOwned(n))
    <2>1. /\ <<"arena", n>> \notin Dropped("plan", planUse) /\ <<"arena", n>> \notin OwnPlan
          /\ <<"arena", n>> \notin Dropped("host", hostUse)
          /\ <<"arena", n>> \in ResidentArena <=> arena = n
      BY <1>2 DEF Dropped, OwnPlan, ResidentArena
    <2> QED BY <1>7, <1>8, <2>1 DEF One, ArenaOwned
  <1> QED BY <1>9, <1>10, <1>11

LEMMA MadeAt ==
  ASSUME live \in [Objects -> Int], NEW x \in Objects, NEW o \in Objects
  PROVE  Made(x)[o] = live[o] + One(o = x)
  BY DEF Made, One

LEMMA FreedAt ==
  ASSUME NEW was, NEW gone, NEW o \in Objects
  PROVE  Freed(was, gone)[o] = was[o] - One(o \in gone)
  BY DEF Freed, One

(* What is made and owned does not change.                                  *)
LEMMA Quiet ==
  ASSUME OwnerInv, UNCHANGED <<asked, geometry, arena, live>>,
         pc' \in NoHostYet => pc \in NoHostYet, pc' \in NoPlanYet => pc \in NoPlanYet,
         pc' \in NoArenaYet => pc \in NoArenaYet, pc' = "placing" => pc = "placing",
         pc = "dead" => pc' = "dead"
  PROVE  Apart' /\ Ledger'
  <1>1. Distinct(hosts)' /\ Distinct(plans)'
    BY DEF OwnerInv, Apart, geometry
  <1>2. Fresh'
    BY DEF OwnerInv, Apart, Fresh, Number, geometry
  <1>3. Open'
    BY DEF OwnerInv, Apart, Open, Number, Kind, Identity, geometry
  <1>4. Ledger'
    BY DEF OwnerInv, Ledger, HostOwned, PlanOwned, ArenaOwned, geometry
  <1> QED BY <1>1, <1>2, <1>3, <1>4 DEF Apart

LEMMA QuietSteps ==
  ASSUME OwnerInv,
         \/ Stop \/ Restore \/ Install \/ Borrow \/ CheckAbsent \/ LinkProof \/ LinkReport
         \/ Answer \/ Refuse \/ ErrorFrame \/ Kill \/ (\E p \in Paths : Take(p))
         \/ UNCHANGED vars
  PROVE  Apart' /\ Ledger'
  <1>1. CASE Stop \/ Restore \/ Install \/ Borrow \/ CheckAbsent
    BY <1>1, Quiet DEF Stop, Restore, Install, Borrow, CheckAbsent, state,
       NoHostYet, NoPlanYet, NoArenaYet, Borrowed
  <1>2. CASE LinkProof \/ LinkReport \/ Answer \/ Refuse \/ ErrorFrame
    BY <1>2, Quiet DEF LinkProof, LinkReport, Answer, Refuse, ErrorFrame, state,
       NoHostYet, NoPlanYet, NoArenaYet, Borrowed
  <1>3. CASE Kill \/ (\E p \in Paths : Take(p)) \/ UNCHANGED vars
    BY <1>3, Quiet DEF Kill, Take, vars, state,
       NoHostYet, NoPlanYet, NoArenaYet, Borrowed
  <1> QED BY <1>1, <1>2, <1>3

LEMMA ReceiveApart ==
  ASSUME OwnerInv, NEW k \in Kinds, Receive(k)
  PROVE  Apart' /\ Ledger'
  <1>1. Number' = Number + 1 /\ Number \in Nat
    BY Counting DEF OwnerInv, SessionInv, Receive, Number
  <1>2. \A e \in hosts \union plans : e.made \in 1 .. Number
    BY DEF OwnerInv, SessionInv, Sourced, OnlyVerifiedReused
  <1>3. hostUse.st \notin {"hit", "pending"} /\ planUse.st \notin {"hit", "pending"} /\ own = NoOne
    BY DEF OwnerInv, SessionInv, Control, Receive, Borrowed
  <1>4. Distinct(hosts)' /\ Distinct(plans)'
    BY DEF OwnerInv, Apart, Receive, geometry
  <1>5. Fresh'
    <2>1. arena <= Number /\ arena \in Int
      BY DEF OwnerInv, SessionInv, TypeOK, Numbers, NoOne, Apart, Fresh
    <2> QED BY <1>1, <1>2, <2>1 DEF Fresh, Receive, geometry, state
  <1>6. Open'
    BY <1>3 DEF Open, Receive, geometry
  <1>7. Ledger'
    BY DEF OwnerInv, Ledger, HostOwned, PlanOwned, ArenaOwned, Receive, geometry, state
  <1> QED BY <1>4, <1>5, <1>6, <1>7 DEF Apart

LEMMA AcquireHostApart ==
  ASSUME OwnerInv, AcquireHost
  PROVE  Apart' /\ Ledger'
  <1>1. Number' = Number /\ Kind' = Kind /\ Identity' = Identity /\ Number \in Numbers
    BY Counting DEF OwnerInv, AcquireHost, Number, Kind, Identity, AtWork
  <1>2. hostUse.st = "none" /\ planUse.st = "none" /\ own = NoOne
    BY DEF OwnerInv, SessionInv, Control, AcquireHost, Borrowed
  <1>3. Distinct(hosts)' /\ Distinct(plans)' /\ Fresh'
    BY <1>1 DEF OwnerInv, Apart, Fresh, AcquireHost, NoHostYet, NoPlanYet, NoArenaYet, state
  <1>4. Open'
    BY <1>1, <1>2 DEF OwnerInv, Open, AcquireHost, Hit, Pending, Find
  <1>5. Ledger'
    <2>1. CASE UNCHANGED live /\ hostUse'.st = "hit"
      BY <1>2, <2>1 DEF OwnerInv, Ledger, HostOwned, PlanOwned, ArenaOwned, AcquireHost, state
    <2>2. CASE hostUse' = Pending /\ live' = Made(<<"host", Number>>)
      <3>1. ~HostOwned(Number)
        BY <1>2 DEF OwnerInv, Apart, Fresh, NoHostYet, HostOwned, AcquireHost
      <3>2. ASSUME NEW n \in Numbers
            PROVE  /\ live'[<<"host", n>>] = live[<<"host", n>>] + One(n = Number)
                   /\ live'[<<"plan", n>>] = live[<<"plan", n>>]
                   /\ live'[<<"arena", n>>] = live[<<"arena", n>>]
        <4>1. /\ <<"host", n>> \in Objects /\ <<"plan", n>> \in Objects
              /\ <<"arena", n>> \in Objects /\ <<"host", Number>> \in Objects
          BY <1>1 DEF Objects
        <4>2. live \in [Objects -> Int]
          BY DEF OwnerInv, SessionInv, TypeOK
        <4> QED BY <2>2, <4>1, <4>2, MadeAt DEF One
      <3>3. ASSUME NEW n \in Numbers
            PROVE  /\ HostOwned(n)' <=> HostOwned(n) \/ n = Number
                   /\ PlanOwned(n)' <=> PlanOwned(n)
                   /\ ArenaOwned(n)' <=> ArenaOwned(n)
        BY <1>2, <2>2 DEF HostOwned, PlanOwned, ArenaOwned, AcquireHost, Pending, state
      <3>4. pc # "dead"
        BY DEF AcquireHost
      <3>5. ASSUME NEW n \in Numbers
            PROVE  /\ live'[<<"host", n>>] = One(HostOwned(n)')
                   /\ live'[<<"plan", n>>] = One(PlanOwned(n)')
                   /\ live'[<<"arena", n>>] = One(ArenaOwned(n)')
        <4>1. /\ live[<<"host", n>>] = One(HostOwned(n)) /\ live[<<"plan", n>>] = One(PlanOwned(n))
              /\ live[<<"arena", n>>] = One(ArenaOwned(n))
          BY <3>4 DEF OwnerInv, Ledger
        <4> QED BY <3>1, <3>2, <3>3, <3>4, <4>1 DEF One
      <3> QED BY <3>5 DEF Ledger
    <2> QED BY <2>1, <2>2 DEF AcquireHost, Hit
  <1> QED BY <1>3, <1>4, <1>5 DEF Apart

LEMMA FindPlanApart ==
  ASSUME OwnerInv, FindPlan
  PROVE  Apart' /\ Ledger'
  <1>1. Number' = Number /\ Kind' = Kind /\ Identity' = Identity /\ Number \in Numbers /\ Number # NoOne
    BY Counting DEF OwnerInv, FindPlan, Number, Kind, Identity, AtWork, Borrowed, Numbers, NoOne
  <1>2. planUse.st = "none" /\ own = NoOne
    BY DEF OwnerInv, SessionInv, Control, FindPlan
  <1>3. Distinct(hosts)' /\ Distinct(plans)' /\ Fresh'
    BY <1>1 DEF OwnerInv, Apart, Fresh, FindPlan, NoHostYet, NoPlanYet, NoArenaYet, Borrowed, state
  <1>4. Open'
    BY <1>1, <1>2 DEF OwnerInv, Apart, Open, FindPlan, Hit, Find
  <1>5. Ledger'
    <2>1. CASE UNCHANGED <<live, own>> /\ planUse'.st = "hit"
      BY <1>2, <2>1 DEF OwnerInv, Ledger, HostOwned, PlanOwned, ArenaOwned, FindPlan, state
    <2>2. CASE own' = Number /\ live' = Made(<<"plan", Number>>) /\ UNCHANGED planUse
      <3>1. ~PlanOwned(Number)
        BY <1>1, <1>2 DEF OwnerInv, Apart, Fresh, NoPlanYet, PlanOwned, FindPlan
      <3>2. ASSUME NEW n \in Numbers
            PROVE  /\ live'[<<"plan", n>>] = live[<<"plan", n>>] + One(n = Number)
                   /\ live'[<<"host", n>>] = live[<<"host", n>>]
                   /\ live'[<<"arena", n>>] = live[<<"arena", n>>]
        <4>1. /\ <<"host", n>> \in Objects /\ <<"plan", n>> \in Objects
              /\ <<"arena", n>> \in Objects /\ <<"plan", Number>> \in Objects
          BY <1>1 DEF Objects
        <4>2. live \in [Objects -> Int]
          BY DEF OwnerInv, SessionInv, TypeOK
        <4> QED BY <2>2, <4>1, <4>2, MadeAt DEF One
      <3>3. ASSUME NEW n \in Numbers
            PROVE  /\ PlanOwned(n)' <=> PlanOwned(n) \/ n = Number
                   /\ HostOwned(n)' <=> HostOwned(n)
                   /\ ArenaOwned(n)' <=> ArenaOwned(n)
        BY <1>1, <1>2, <2>2 DEF HostOwned, PlanOwned, ArenaOwned, FindPlan, state, Numbers, NoOne
      <3>4. pc # "dead"
        BY DEF FindPlan
      <3>5. ASSUME NEW n \in Numbers
            PROVE  /\ live'[<<"host", n>>] = One(HostOwned(n)')
                   /\ live'[<<"plan", n>>] = One(PlanOwned(n)')
                   /\ live'[<<"arena", n>>] = One(ArenaOwned(n)')
        <4>1. /\ live[<<"host", n>>] = One(HostOwned(n)) /\ live[<<"plan", n>>] = One(PlanOwned(n))
              /\ live[<<"arena", n>>] = One(ArenaOwned(n))
          BY <3>4 DEF OwnerInv, Ledger
        <4> QED BY <3>1, <3>2, <3>3, <3>4, <4>1 DEF One
      <3> QED BY <3>5 DEF Ledger
    <2> QED BY <2>1, <2>2 DEF FindPlan, Hit
  <1> QED BY <1>3, <1>4, <1>5 DEF Apart

LEMMA PlaceApart ==
  ASSUME OwnerInv, Place
  PROVE  Apart' /\ Ledger'
  <1>1. Number' = Number /\ Kind' = Kind /\ Identity' = Identity /\ Number \in Numbers /\ Number # NoOne
    BY Counting DEF OwnerInv, Place, Number, Kind, Identity, AtWork, Borrowed, Numbers, NoOne
  <1>2. planUse.st # "hit" => own = Number /\ planUse.st = "none"
    BY <1>1 DEF OwnerInv, SessionInv, Control, Apart, Open, Place
  <1>3. planUse.st = "hit" => own = NoOne
    BY DEF OwnerInv, SessionInv, Control
  <1>4. Distinct(hosts)' /\ Distinct(plans)' /\ Fresh'
    BY <1>1 DEF OwnerInv, Apart, Fresh, Place, NoHostYet, NoPlanYet, NoArenaYet, Borrowed, Numbers
  <1>5. Open'
    BY <1>1, <1>2, <1>3 DEF OwnerInv, Apart, Open, Place, Pending, HandedOver
  <1>6. Ledger'
    <2>1. ASSUME NEW n \in Numbers
          PROVE  /\ live'[<<"host", n>>] = live[<<"host", n>>]
                 /\ live'[<<"plan", n>>] = live[<<"plan", n>>]
                 /\ live'[<<"arena", n>>] = live[<<"arena", n>>] + One(n = Number) - One(n = arena)
      <3>1. /\ <<"host", n>> \in Objects /\ <<"plan", n>> \in Objects
            /\ <<"arena", n>> \in Objects /\ <<"arena", Number>> \in Objects
        BY <1>1 DEF Objects
      <3>2. live \in [Objects -> Int]
        BY DEF OwnerInv, SessionInv, TypeOK
      <3>3. live' = Freed(Made(<<"arena", Number>>), ResidentArena)
        BY DEF Place
      <3>4. /\ <<"host", n>> \notin ResidentArena /\ <<"plan", n>> \notin ResidentArena
            /\ <<"arena", n>> \in ResidentArena <=> n = arena
        BY DEF ResidentArena, Numbers, NoOne
      <3> QED BY <3>1, <3>2, <3>3, <3>4, MadeAt, FreedAt DEF One
    <2>2. ASSUME NEW n \in Numbers
          PROVE  /\ HostOwned(n)' <=> HostOwned(n)
                 /\ PlanOwned(n)' <=> PlanOwned(n)
                 /\ ArenaOwned(n)' <=> n = Number
      BY <1>1, <1>2, <1>3
         DEF HostOwned, PlanOwned, ArenaOwned, Place, Pending, HandedOver, Numbers, NoOne
    <2>3. pc # "dead" /\ arena # Number
      BY DEF OwnerInv, Apart, Fresh, NoArenaYet, Place
    <2>4. ASSUME NEW n \in Numbers
          PROVE  /\ live'[<<"host", n>>] = One(HostOwned(n)')
                 /\ live'[<<"plan", n>>] = One(PlanOwned(n)')
                 /\ live'[<<"arena", n>>] = One(ArenaOwned(n)')
      <3>1. /\ live[<<"host", n>>] = One(HostOwned(n)) /\ live[<<"plan", n>>] = One(PlanOwned(n))
            /\ live[<<"arena", n>>] = One(ArenaOwned(n))
        BY <2>3 DEF OwnerInv, Ledger
      <3> QED BY <2>1, <2>2, <2>3, <3>1 DEF One, ArenaOwned
    <2> QED BY <2>4 DEF Ledger
  <1> QED BY <1>4, <1>5, <1>6 DEF Apart

(* A commit leaves a cache with distinct entries, and what it holds is what *)
(* it held and what was pending, less what was evicted.                     *)
LEMMA CommitDistinct ==
  ASSUME NEW entries, Distinct(entries), NEW use, NEW k,
         \/ use.st = "hit" /\ \E e \in entries : e.key = k /\ e.made = use.made
         \/ use.st = "pending" /\ \A e \in entries : e.key # k /\ e.made # use.made
  PROVE  Distinct(Committed(entries, use, k))
  <1>1. CASE use.st = "hit"
    BY <1>1 DEF Distinct, Committed, Find
  <1>2. CASE use.st = "pending"
    BY <1>2 DEF Distinct, Committed
  <1> QED BY <1>1, <1>2

LEMMA CommitHolds ==
  ASSUME NEW entries, Distinct(entries), NEW use, NEW k, NEW label, NEW n,
         \/ use.st = "hit" /\ \E e \in entries : e.key = k /\ e.made = use.made
         \/ use.st = "pending" /\ \A e \in entries : e.key # k /\ e.made # use.made
  PROVE  /\ <<label, n>> \in Evicted(label, entries, use) =>
              /\ \E e \in entries : e.made = n
              /\ ~\E e \in Committed(entries, use, k) : e.made = n
         /\ <<label, n>> \notin Evicted(label, entries, use) =>
              ((\E e \in Committed(entries, use, k) : e.made = n)
                <=> (\E e \in entries : e.made = n) \/ (use.st = "pending" /\ use.made = n))
  <1>1. CASE use.st = "hit"
    <2>1. Evicted(label, entries, use) = {}
      BY <1>1 DEF Evicted
    <2>2. PICK d \in entries : d.key = k /\ d.made = use.made
      BY <1>1
    <2>3. Find(entries, k) = {d} /\ \A e \in entries : e.made = d.made => e = d
      BY <2>2 DEF Find, Distinct
    <2> DEFINE new == [key |-> k, made |-> use.made, used |-> Number]
    <2>4. Committed(entries, use, k) = (entries \ {d}) \union {new}
      BY <1>1, <2>3 DEF Committed
    <2>5. new.made = use.made
      OBVIOUS
    <2> HIDE DEF new
    <2> QED BY <1>1, <2>1, <2>2, <2>3, <2>4, <2>5
  <1>2. CASE use.st = "pending"
    <2> DEFINE gone == Victims(entries)
    <2>1. gone \subseteq entries
      BY DEF Victims
    <2> DEFINE new == [key |-> k, made |-> use.made, used |-> Number]
    <2>2. Committed(entries, use, k) = (entries \ gone) \union {new} /\ new.made = use.made
      BY <1>2 DEF Committed
    <2>3. Evicted(label, entries, use) = {<<label, e.made>> : e \in gone}
      BY <1>2 DEF Evicted
    <2> HIDE DEF gone, new
    <2>4. <<label, n>> \in Evicted(label, entries, use) <=> \E e \in gone : e.made = n
      BY <2>3
    <2>5. (\E e \in Committed(entries, use, k) : e.made = n)
            <=> (\E e \in entries \ gone : e.made = n) \/ use.made = n
      BY <2>2
    <2>6. \A d, e \in entries : d.made = e.made => d = e
      BY DEF Distinct
    <2>7. \A e \in entries : e.made # use.made
      BY <1>2
    <2> QED BY <1>2, <2>1, <2>4, <2>5, <2>6, <2>7
  <1> QED BY <1>1, <1>2

LEMMA EvictedLabel ==
  ASSUME NEW entries, NEW use, NEW label, NEW other, label # other, NEW n
  PROVE  <<other, n>> \notin Evicted(label, entries, use)
  BY DEF Evicted

LEMMA CommitStateApart ==
  ASSUME OwnerInv, CommitState
  PROVE  Apart' /\ Ledger'
  <1>1. Number' = Number /\ Kind' = Kind /\ Identity' = Identity /\ Number \in Numbers /\ Number # NoOne
    BY Counting DEF OwnerInv, CommitState, Number, Kind, Identity, AtWork, Borrowed, Numbers, NoOne
  <1>2. \/ planUse.st = "hit" /\ \E e \in plans : e.key = Identity /\ e.made = planUse.made
        \/ planUse.st = "pending" /\ \A e \in plans : e.key # Identity /\ e.made # planUse.made
    <2>1. planUse.st \in {"hit", "pending"}
      BY DEF OwnerInv, SessionInv, TypeOK, Uses, Control, CommitState
    <2> QED BY <2>1 DEF OwnerInv, SessionInv, Sourced, Apart, Open, Fresh, NoPlanYet, CommitState
  <1>3. own = NoOne
    BY DEF OwnerInv, SessionInv, Control, CommitState
  <1>4. plans' = Committed(plans, planUse, Identity) /\ Distinct(plans)
    BY DEF OwnerInv, Apart, CommitState
  <1>5. Distinct(hosts)' /\ Distinct(plans)'
    <2>1. Distinct(plans')
      BY <1>2, <1>4, CommitDistinct
    <2>2. Distinct(hosts')
      BY DEF OwnerInv, Apart, CommitState
    <2> QED BY <2>1, <2>2 DEF Distinct
  <1>6. Fresh'
    BY <1>1 DEF OwnerInv, Apart, Fresh, CommitState, NoHostYet, NoPlanYet, NoArenaYet, Borrowed
  <1>7. Open'
    BY <1>1, <1>3 DEF OwnerInv, Apart, Open, CommitState, Idle
  <1>8. Ledger'
    <2>1. ASSUME NEW n \in Numbers
          PROVE  /\ live'[<<"host", n>>] = live[<<"host", n>>]
                 /\ live'[<<"arena", n>>] = live[<<"arena", n>>]
                 /\ live'[<<"plan", n>>]
                      = live[<<"plan", n>>] - One(<<"plan", n>> \in Evicted("plan", plans, planUse))
      <3>1. /\ <<"host", n>> \in Objects /\ <<"plan", n>> \in Objects
            /\ <<"arena", n>> \in Objects
        BY DEF Objects
      <3>2. live \in [Objects -> Int]
        BY DEF OwnerInv, SessionInv, TypeOK
      <3>3. live' = Freed(live, Evicted("plan", plans, planUse))
        BY DEF CommitState
      <3>4. /\ <<"host", n>> \notin Evicted("plan", plans, planUse)
            /\ <<"arena", n>> \notin Evicted("plan", plans, planUse)
        <4>1. "plan" # "host" /\ "plan" # "arena"
          OBVIOUS
        <4> QED BY <4>1, EvictedLabel
      <3>5. live[<<"host", n>>] \in Int /\ live[<<"arena", n>>] \in Int
        BY <3>1, <3>2
      <3> QED BY <3>1, <3>3, <3>4, <3>5, FreedAt DEF One
    <2>2. ASSUME NEW n \in Numbers
          PROVE  /\ HostOwned(n)' <=> HostOwned(n)
                 /\ ArenaOwned(n)' <=> ArenaOwned(n)
      BY DEF HostOwned, ArenaOwned, CommitState
    <2>3. ASSUME NEW n \in Numbers
          PROVE  One(PlanOwned(n)')
                   = One(PlanOwned(n)) - One(<<"plan", n>> \in Evicted("plan", plans, planUse))
      <3>1. PlanOwned(n)' <=> \E e \in plans' : e.made = n
        BY <1>3 DEF PlanOwned, CommitState, Idle, Numbers, NoOne
      <3>2. PlanOwned(n) <=> (\E e \in plans : e.made = n) \/ (planUse.st = "pending" /\ planUse.made = n)
        BY <1>3 DEF PlanOwned, Numbers, NoOne
      <3>3. CASE <<"plan", n>> \in Evicted("plan", plans, planUse)
        <4>1. (\E e \in plans : e.made = n) /\ ~\E e \in Committed(plans, planUse, Identity) : e.made = n
          BY <1>2, <1>4, <3>3, CommitHolds
        <4> QED BY <1>4, <3>1, <3>2, <3>3, <4>1 DEF One
      <3>4. CASE <<"plan", n>> \notin Evicted("plan", plans, planUse)
        <4>1. (\E e \in Committed(plans, planUse, Identity) : e.made = n)
                <=> (\E e \in plans : e.made = n) \/ (planUse.st = "pending" /\ planUse.made = n)
          BY <1>2, <1>4, <3>4, CommitHolds
        <4> QED BY <1>4, <3>1, <3>2, <3>4, <4>1 DEF One
      <3> QED BY <3>3, <3>4
    <2>4. pc # "dead"
      BY DEF CommitState
    <2>5. ASSUME NEW n \in Numbers
          PROVE  /\ live'[<<"host", n>>] = One(HostOwned(n)')
                 /\ live'[<<"plan", n>>] = One(PlanOwned(n)')
                 /\ live'[<<"arena", n>>] = One(ArenaOwned(n)')
      <3>1. /\ live[<<"host", n>>] = One(HostOwned(n)) /\ live[<<"plan", n>>] = One(PlanOwned(n))
            /\ live[<<"arena", n>>] = One(ArenaOwned(n))
        BY <2>4 DEF OwnerInv, Ledger
      <3> QED BY <2>1, <2>2, <2>3, <2>4, <3>1 DEF One
    <2> QED BY <2>5 DEF Ledger
  <1> QED BY <1>5, <1>6, <1>7, <1>8 DEF Apart

LEMMA FinishApart ==
  ASSUME OwnerInv, Finish
  PROVE  Apart' /\ Ledger'
  <1>1. Number' = Number /\ Kind' = Kind /\ Identity' = Identity
    BY DEF Finish, Number, Kind, Identity
  <1>2. \/ hostUse.st = "hit" /\ \E e \in hosts : e.key = Kind /\ e.made = hostUse.made
        \/ hostUse.st = "pending" /\ \A e \in hosts : e.key # Kind /\ e.made # hostUse.made
    <2>1. hostUse.st \in {"hit", "pending"}
      BY DEF OwnerInv, SessionInv, TypeOK, Uses, Control, Finish
    <2> QED BY <2>1 DEF OwnerInv, SessionInv, Sourced, Apart, Open, Fresh, NoHostYet, Finish
  <1>3. own = NoOne /\ planUse.st = "none"
    BY DEF OwnerInv, SessionInv, Control, Finish
  <1>4. hosts' = Committed(hosts, hostUse, Kind) /\ Distinct(hosts)
    BY DEF OwnerInv, Apart, Finish
  <1>5. Distinct(hosts)' /\ Distinct(plans)'
    <2>1. Distinct(hosts')
      BY <1>2, <1>4, CommitDistinct
    <2>2. Distinct(plans')
      BY DEF OwnerInv, Apart, Finish
    <2> QED BY <2>1, <2>2 DEF Distinct
  <1>6. Fresh'
    BY <1>1 DEF OwnerInv, Apart, Fresh, Finish, NoHostYet, NoPlanYet, NoArenaYet, Borrowed, state
  <1>7. Open'
    BY <1>1, <1>3 DEF OwnerInv, Open, Finish, Idle
  <1>8. Ledger'
    <2>1. ASSUME NEW n \in Numbers
          PROVE  /\ live'[<<"plan", n>>] = live[<<"plan", n>>]
                 /\ live'[<<"arena", n>>] = live[<<"arena", n>>]
                 /\ live'[<<"host", n>>]
                      = live[<<"host", n>>] - One(<<"host", n>> \in Evicted("host", hosts, hostUse))
      <3>1. /\ <<"host", n>> \in Objects /\ <<"plan", n>> \in Objects
            /\ <<"arena", n>> \in Objects
        BY DEF Objects
      <3>2. live \in [Objects -> Int]
        BY DEF OwnerInv, SessionInv, TypeOK
      <3>3. live' = Freed(live, Evicted("host", hosts, hostUse))
        BY DEF Finish
      <3>4. /\ <<"plan", n>> \notin Evicted("host", hosts, hostUse)
            /\ <<"arena", n>> \notin Evicted("host", hosts, hostUse)
        <4>1. "host" # "plan" /\ "host" # "arena"
          OBVIOUS
        <4> QED BY <4>1, EvictedLabel
      <3>5. live[<<"plan", n>>] \in Int /\ live[<<"arena", n>>] \in Int
        BY <3>1, <3>2
      <3> QED BY <3>1, <3>3, <3>4, <3>5, FreedAt DEF One
    <2>2. ASSUME NEW n \in Numbers
          PROVE  /\ PlanOwned(n)' <=> PlanOwned(n)
                 /\ ArenaOwned(n)' <=> ArenaOwned(n)
      BY DEF PlanOwned, ArenaOwned, Finish, state
    <2>3. ASSUME NEW n \in Numbers
          PROVE  One(HostOwned(n)')
                   = One(HostOwned(n)) - One(<<"host", n>> \in Evicted("host", hosts, hostUse))
      <3>1. HostOwned(n)' <=> \E e \in hosts' : e.made = n
        BY DEF HostOwned, Finish, Idle
      <3>2. CASE <<"host", n>> \in Evicted("host", hosts, hostUse)
        <4>1. (\E e \in hosts : e.made = n) /\ ~\E e \in Committed(hosts, hostUse, Kind) : e.made = n
          BY <1>2, <1>4, <3>2, CommitHolds
        <4> QED BY <1>4, <3>1, <3>2, <4>1 DEF One, HostOwned
      <3>3. CASE <<"host", n>> \notin Evicted("host", hosts, hostUse)
        <4>1. (\E e \in Committed(hosts, hostUse, Kind) : e.made = n)
                <=> (\E e \in hosts : e.made = n) \/ (hostUse.st = "pending" /\ hostUse.made = n)
          BY <1>2, <1>4, <3>3, CommitHolds
        <4> QED BY <1>4, <3>1, <3>3, <4>1 DEF One, HostOwned
      <3> QED BY <3>2, <3>3
    <2>4. pc # "dead"
      BY DEF Finish
    <2>5. ASSUME NEW n \in Numbers
          PROVE  /\ live'[<<"host", n>>] = One(HostOwned(n)')
                 /\ live'[<<"plan", n>>] = One(PlanOwned(n)')
                 /\ live'[<<"arena", n>>] = One(ArenaOwned(n)')
      <3>1. /\ live[<<"host", n>>] = One(HostOwned(n)) /\ live[<<"plan", n>>] = One(PlanOwned(n))
            /\ live[<<"arena", n>>] = One(ArenaOwned(n))
        BY <2>4 DEF OwnerInv, Ledger
      <3> QED BY <2>1, <2>2, <2>3, <2>4, <3>1 DEF One
    <2> QED BY <2>5 DEF Ledger
  <1> QED BY <1>5, <1>6, <1>7, <1>8 DEF Apart

(* The failed request gives up what it holds: of the plans, the one its key *)
(* names if it borrowed it, or the one it made.                             *)
LEMMA PoisonApart ==
  ASSUME OwnerInv, Poison, pc \in Borrowed \union {"linking"}, pc' = "failed", UNCHANGED asked
  PROVE  Apart' /\ Ledger'
  <1>1. Number' = Number
    BY DEF Number
  <1>2. Distinct(hosts)' /\ Distinct(plans)'
    BY DEF OwnerInv, Apart, Distinct, Poison
  <1>3. Fresh' /\ Open'
    <2>1. NoOne <= Number
      BY Counting DEF OwnerInv, NoOne
    <2> QED BY <1>1, <2>1
               DEF Fresh, Open, Poison, Unstage, Idle, NoHostYet, NoPlanYet, NoArenaYet, Borrowed
  <1>4. Ledger'
    <2> DEFINE borrowed == IF planUse.st = "hit" THEN {<<"plan", planUse.made>>} ELSE {}
               gone == ResidentArena \union OwnPlan \union Dropped("plan", planUse)
                         \union Dropped("host", hostUse) \union borrowed
    <2>1. live' = Freed(live, gone)
      BY DEF Poison
    <2>2. live \in [Objects -> Int]
      BY DEF OwnerInv, SessionInv, TypeOK
    <2>3. ASSUME NEW n \in Numbers
          PROVE  /\ <<"host", n>> \in gone <=> hostUse.st = "pending" /\ hostUse.made = n
                 /\ <<"arena", n>> \in gone <=> arena = n
                 /\ <<"plan", n>> \in gone <=>
                      own = n \/ (planUse.st \in {"hit", "pending"} /\ planUse.made = n)
      BY DEF ResidentArena, OwnPlan, Dropped, Numbers, NoOne
    <2> HIDE DEF gone
    <2>4. ASSUME NEW n \in Numbers
          PROVE  /\ live'[<<"host", n>>] = live[<<"host", n>>] - One(<<"host", n>> \in gone)
                 /\ live'[<<"plan", n>>] = live[<<"plan", n>>] - One(<<"plan", n>> \in gone)
                 /\ live'[<<"arena", n>>] = live[<<"arena", n>>] - One(<<"arena", n>> \in gone)
      <3>1. <<"host", n>> \in Objects /\ <<"plan", n>> \in Objects /\ <<"arena", n>> \in Objects
        BY DEF Objects
      <3> QED BY <2>1, <3>1, FreedAt
    <2>5. pc # "dead"
      BY DEF Borrowed
    <2>6. ASSUME NEW n \in Numbers
          PROVE  One(HostOwned(n)') = One(HostOwned(n)) - One(<<"host", n>> \in gone)
      <3>1. HostOwned(n)' <=> \E e \in hosts : e.made = n
        BY DEF HostOwned, Poison, Idle
      <3>2. hostUse.st = "pending" /\ hostUse.made = n => ~\E e \in hosts : e.made = n
        BY DEF OwnerInv, SessionInv, Sourced, Apart, Fresh, NoHostYet
      <3>3. CASE hostUse.st = "pending" /\ hostUse.made = n
        <4>1. ~HostOwned(n)' /\ HostOwned(n)
          BY <3>1, <3>2, <3>3 DEF HostOwned
        <4>2. <<"host", n>> \in gone
          BY <2>3, <3>3
        <4> QED BY <4>1, <4>2 DEF One
      <3>4. CASE ~(hostUse.st = "pending" /\ hostUse.made = n)
        <4>1. HostOwned(n)' <=> HostOwned(n)
          BY <3>1, <3>4 DEF HostOwned
        <4>2. <<"host", n>> \notin gone
          BY <2>3, <3>4
        <4> QED BY <4>1, <4>2 DEF One
      <3> QED BY <3>3, <3>4
    <2>7. ASSUME NEW n \in Numbers
          PROVE  One(PlanOwned(n)') = One(PlanOwned(n)) - One(<<"plan", n>> \in gone)
      <3>1. PlanOwned(n)' <=> \E e \in plans' : e.made = n
        BY DEF PlanOwned, Poison, Unstage, Idle, Numbers, NoOne
      <3>2. CASE planUse.st = "hit"
        <4>1. PICK d \in plans : d.key = Identity /\ d.made = planUse.made
          BY <3>2 DEF OwnerInv, Apart, Open
        <4>2. Find(plans, Identity) = {d} /\ \A e \in plans : e.made = d.made => e = d
          BY <4>1 DEF OwnerInv, Apart, Distinct, Find
        <4>3. plans' = plans \ {d}
          BY <3>2, <4>2 DEF Poison
        <4>4. own # n
          BY <3>2 DEF OwnerInv, SessionInv, Control, Numbers, NoOne
        <4>5. PlanOwned(n)' <=> (\E e \in plans : e.made = n) /\ n # planUse.made
          BY <3>1, <4>1, <4>2, <4>3
        <4>6. PlanOwned(n) <=> \E e \in plans : e.made = n
          BY <3>2, <4>4 DEF PlanOwned
        <4>7. <<"plan", n>> \in gone <=> n = planUse.made
          BY <2>3, <3>2, <4>4
        <4> QED BY <4>1, <4>5, <4>6, <4>7 DEF One
      <3>3. CASE planUse.st # "hit"
        <4>1. plans' = plans
          BY <3>3 DEF Poison
        <4>2. own = n \/ (planUse.st = "pending" /\ planUse.made = n) => ~\E e \in plans : e.made = n
          BY DEF OwnerInv, SessionInv, TypeOK, Control, Sourced, Apart, Fresh, NoPlanYet, Numbers,
                 NoOne, Borrowed
        <4>3. PlanOwned(n)' <=> \E e \in plans : e.made = n
          BY <3>1, <4>1
        <4>4. <<"plan", n>> \in gone <=> own = n \/ (planUse.st = "pending" /\ planUse.made = n)
          BY <2>3, <3>3
        <4> QED BY <4>2, <4>3, <4>4 DEF PlanOwned, One
      <3> QED BY <3>2, <3>3
    <2>8. ASSUME NEW n \in Numbers
          PROVE  One(ArenaOwned(n)') = One(ArenaOwned(n)) - One(<<"arena", n>> \in gone)
      <3>1. ~ArenaOwned(n)'
        BY DEF ArenaOwned, Poison, Numbers, NoOne
      <3>2. ArenaOwned(n) <=> <<"arena", n>> \in gone
        BY <2>3 DEF ArenaOwned
      <3> QED BY <3>1, <3>2 DEF One
    <2>9. ASSUME NEW n \in Numbers
          PROVE  /\ live'[<<"host", n>>] = One(HostOwned(n)')
                 /\ live'[<<"plan", n>>] = One(PlanOwned(n)')
                 /\ live'[<<"arena", n>>] = One(ArenaOwned(n)')
      <3>1. /\ live[<<"host", n>>] = One(HostOwned(n)) /\ live[<<"plan", n>>] = One(PlanOwned(n))
            /\ live[<<"arena", n>>] = One(ArenaOwned(n))
        BY <2>5 DEF OwnerInv, Ledger
      <3> QED BY <2>4, <2>5, <2>6, <2>7, <2>8, <3>1 DEF One
    <2> QED BY <2>9 DEF Ledger
  <1> QED BY <1>2, <1>3, <1>4 DEF Apart

LEMMA LeaveApart ==
  ASSUME OwnerInv, Leave
  PROVE  Apart' /\ Ledger'
  <1>1. Number' = Number /\ Number \in Nat
    BY Counting DEF OwnerInv, Leave, Number
  <1>2. Apart'
    BY <1>1 DEF Apart, Distinct, Fresh, Open, Leave, Idle, NoArenaYet,
       Borrowed, NoOne
  <1>3. Ledger'
    <2>1. pc # "dead"
      BY DEF Leave
    <2>2. ASSUME NEW n \in Numbers
          PROVE  /\ live'[<<"host", n>>] = 0 /\ live'[<<"plan", n>>] = 0
                 /\ live'[<<"arena", n>>] = 0
      <3>1. <<"host", n>> \in Objects /\ <<"plan", n>> \in Objects /\ <<"arena", n>> \in Objects
        BY DEF Objects
      <3>2. \A o \in Objects : live'[o] = live[o] - Held(o)
        BY DEF Leave
      <3>3. /\ live[<<"host", n>>] = One(HostOwned(n)) /\ live[<<"plan", n>>] = One(PlanOwned(n))
            /\ live[<<"arena", n>>] = One(ArenaOwned(n))
        BY <2>1 DEF OwnerInv, Ledger
      <3>4. One(HostOwned(n)) \in Int /\ One(PlanOwned(n)) \in Int /\ One(ArenaOwned(n)) \in Int
        BY DEF One
      <3>5. /\ Held(<<"host", n>>) = One(HostOwned(n)) /\ Held(<<"plan", n>>) = One(PlanOwned(n))
            /\ Held(<<"arena", n>>) = One(ArenaOwned(n))
        BY <2>1, HeldOnce DEF OwnerInv
      <3> QED BY <3>1, <3>2, <3>3, <3>4, <3>5
    <2>3. ASSUME NEW n \in Numbers
          PROVE  ~HostOwned(n)' /\ ~PlanOwned(n)' /\ ~ArenaOwned(n)'
      BY DEF HostOwned, PlanOwned, ArenaOwned, Leave, Idle, Numbers, NoOne
    <2> QED BY <2>2, <2>3 DEF Ledger, One
  <1> QED BY <1>2, <1>3

LEMMA InitOwner == Init => OwnerInv
  <1> SUFFICES ASSUME Init PROVE OwnerInv
    OBVIOUS
  <1>1. Number = 0
    BY DEF Init, Number
  <1>2. Apart
    BY <1>1 DEF Init, Apart, Distinct, Fresh, Open, Idle, NoArenaYet, NoOne
  <1>3. Ledger
    <2>1. ASSUME NEW n \in Numbers
          PROVE  /\ live[<<"host", n>>] = 0 /\ live[<<"plan", n>>] = 0 /\ live[<<"arena", n>>] = 0
      BY DEF Init, Objects
    <2>2. ASSUME NEW n \in Numbers
          PROVE  ~HostOwned(n) /\ ~PlanOwned(n) /\ ~ArenaOwned(n)
      BY DEF Init, HostOwned, PlanOwned, ArenaOwned, Idle, Numbers, NoOne
    <2> QED BY <2>1, <2>2 DEF Ledger, One
  <1> QED BY <1>2, <1>3, InitInv DEF OwnerInv

LEMMA OwnerStep ==
  ASSUME OwnerInv, [Next]_vars
  PROVE  OwnerInv'
  <1>1. SessionInv'
    BY SessionStep DEF OwnerInv
  <1>2. Apart' /\ Ledger'
    <2>1. CASE Fail
      BY <2>1, PoisonApart DEF Fail
    <2>2. CASE Withdraw
      BY <2>2, PoisonApart DEF Withdraw
    <2> QED BY <2>1, <2>2, QuietSteps, ReceiveApart, AcquireHostApart, FindPlanApart, PlaceApart,
         CommitStateApart, FinishApart, LeaveApart DEF Next
  <1> QED BY <1>1, <1>2 DEF OwnerInv

(* Who owns each object is known at every point of every request, and an   *)
(* object of this request is in no cache before the commit (state.zig).    *)
THEOREM OwnersKnown == Spec => []OwnerInv
  BY InitOwner, OwnerStep, PTL DEF Spec

-----------------------------------------------------------------------------
(* Every variable has its type in every reachable state.                    *)
THEOREM SessionTyped == Spec => []TypeOK
  <1>1. SessionInv => TypeOK
    BY DEF SessionInv
  <1> QED BY SessionSafe, <1>1, PTL

(* Nothing that a failed or unverified request made is ever reused, and     *)
(* what is reused is of the identity that asks (PreparedStateAdmission,     *)
(* commitAssumeValid).                                                      *)
THEOREM VerifiedReuse == Spec => []OnlyVerifiedReused
  <1>1. SessionInv => OnlyVerifiedReused
    BY DEF SessionInv
  <1> QED BY SessionSafe, <1>1, PTL

(* Frames and links say what happened, wherever the process fails or is     *)
(* killed and whatever others put at its output paths (publishExclusive).   *)
THEOREM HonestOutputs == Spec => []OutputsHonest
  <1>1. SessionInv => OutputsHonest
    BY DEF SessionInv
  <1> QED BY SessionSafe, <1>1, PTL

(* Every plan, host geometry and arena has one owner until it is freed, and *)
(* is freed once (stageMiss, poison, the deinits).                          *)
THEOREM SingleOwner == Spec => []OneOwner
  <1>1. OwnerInv => OneOwner
    <2> SUFFICES ASSUME OwnerInv, pc # "dead", NEW o \in Objects
                 PROVE  live[o] = Held(o) /\ Held(o) \in {0, 1}
      BY DEF OneOwner
    <2>1. PICK n \in Numbers : o \in {<<"host", n>>, <<"plan", n>>, <<"arena", n>>}
      BY DEF Objects
    <2>2. /\ Held(<<"host", n>>) = One(HostOwned(n)) /\ Held(<<"plan", n>>) = One(PlanOwned(n))
          /\ Held(<<"arena", n>>) = One(ArenaOwned(n))
      BY HeldOnce DEF OwnerInv
    <2>3. /\ live[<<"host", n>>] = One(HostOwned(n)) /\ live[<<"plan", n>>] = One(PlanOwned(n))
          /\ live[<<"arena", n>>] = One(ArenaOwned(n))
      BY DEF OwnerInv, Ledger
    <2> QED BY <2>1, <2>2, <2>3 DEF One
  <1> QED BY OwnersKnown, <1>1, PTL

-----------------------------------------------------------------------------
(* The errors that only a call out of turn can cause never occur.           *)

(* The state that is there while a request prepares, or is lent one.        *)
Prepared ==
  /\ pc \in {"preparing", "proving"} => status \in {"pending", "borrowed"} /\ arena # NoOne
  /\ status = "ready" /\ pc # "closed" => arena # NoOne
  /\ status = "pending" /\ pc = "preparing" => snapshot = NoOne /\ recipes = NoOne

LEMMA PreparedStep ==
  ASSUME SessionInv, Prepared, [Next]_vars
  PROVE  Prepared'
  <1>1. ASSUME \/ \E k \in Kinds : Receive(k)
               \/ Stop \/ AcquireHost \/ FindPlan \/ CheckAbsent \/ LinkProof \/ LinkReport
               \/ Finish \/ Answer \/ Refuse \/ ErrorFrame \/ Kill \/ \E p \in Paths : Take(p)
        PROVE  Prepared'
    BY <1>1 DEF Prepared, SessionInv, Control, Receive, Stop, AcquireHost, FindPlan, CheckAbsent,
                LinkProof, LinkReport, Finish, Answer, Refuse, ErrorFrame, Kill, Take, Running, state
  <1>2. CASE Restore
    BY <1>2 DEF Restore, Reusable, Prepared
  <1>3. CASE Place
    <2>1. Number # NoOne
      BY <1>3 DEF Place, SessionInv, Control, AtWork, Borrowed, NoOne
    <2> QED BY <1>3, <2>1 DEF Place, Prepared
  <1>4. CASE Install \/ Borrow
    BY <1>4 DEF Install, Borrow, Prepared, state
  <1>5. CASE CommitState
    BY <1>5 DEF CommitState, Prepared
  <1>6. CASE Fail \/ Withdraw
    BY <1>6 DEF Fail, Withdraw, Poison, Prepared
  <1>7. CASE Leave
    BY <1>7 DEF Leave, Prepared, SessionInv, Control
  <1>8. CASE UNCHANGED vars
    BY <1>8 DEF vars, state, Prepared
  <1> QED BY <1>1, <1>2, <1>3, <1>4, <1>5, <1>6, <1>7, <1>8 DEF Next

(* What each call into the caches asks of the state it finds.               *)
CalledInTurn ==
  /\ pc = "admitting" => hostUse.st = "none"
  /\ pc = "finding" => planUse.st = "none"
  /\ pc = "placing" =>
       /\ status \notin {"pending", "borrowed"}
       /\ (planUse.st = "hit" /\ own = NoOne) \/ (planUse.st = "none" /\ own = Number)
       /\ Reusable => snapshot # NoOne /\ arena # NoOne
  /\ pc = "preparing" =>
       \/ status = "pending" /\ snapshot = NoOne /\ recipes = NoOne /\ arena # NoOne
       \/ status = "borrowed" /\ recipes # NoOne /\ recipes = arena
  /\ pc = "proving" =>
       /\ status \in {"pending", "borrowed"} /\ planUse.st # "none"
       /\ planUse.st = "hit" => Find(plans, Identity) # {}
  /\ pc = "finishing" =>
       /\ hostUse.st # "none"
       /\ hostUse.st = "hit" => Find(hosts, Kind) # {}

(* No cache is asked for a second loan, a plan without an owner, a snapshot *)
(* or recipes that are not there or not of the resident arena, or to commit *)
(* what is not lent (AlreadyBorrowed, MissingPreparedStatePlanOwner,        *)
(* MissingSnapshot, MissingArena, NotPending, NotBorrowed, AlreadyInstalled,*)
(* MissingCompact, CompactArenaMismatch: metal_arena_plan/main.zig 279-295, *)
(* 379, 420-422, 845-864, 1106-1107; state.zig 221, 241, 261-269): a        *)
(* request fails of its own input or device, never of what the requests     *)
(* before it left.                                                          *)
THEOREM NoCallOutOfTurn == Spec => []CalledInTurn
  <1>1. Init => Prepared
    BY DEF Init, Prepared
  <1>2. OwnerInv /\ Prepared /\ [Next]_vars => Prepared'
    BY PreparedStep DEF OwnerInv
  <1>3. OwnerInv /\ Prepared => CalledInTurn
    <2> SUFFICES ASSUME OwnerInv, Prepared PROVE CalledInTurn
      OBVIOUS
    <2>1. pc = "admitting" => hostUse.st = "none"
      BY DEF OwnerInv, SessionInv, Control, Borrowed
    <2>2. pc = "finding" => planUse.st = "none"
      BY DEF OwnerInv, SessionInv, Control
    <2>3. ASSUME pc = "placing"
          PROVE  /\ status \notin {"pending", "borrowed"}
                 /\ (planUse.st = "hit" /\ own = NoOne) \/ (planUse.st = "none" /\ own = Number)
                 /\ Reusable => snapshot # NoOne /\ arena # NoOne
      <3>1. status \notin {"pending", "borrowed"}
        BY <2>3 DEF OwnerInv, SessionInv, Control
      <3>2. (planUse.st = "hit" /\ own = NoOne) \/ (planUse.st = "none" /\ own = Number)
        <4>1. planUse.st # "hit" => own = Number /\ own # NoOne
          BY <2>3, Counting
             DEF OwnerInv, Apart, Open, AtWork, Borrowed, Numbers, NoOne
        <4>2. own # NoOne => planUse.st = "none"
          BY DEF OwnerInv, SessionInv, Control
        <4> QED BY <4>1, <4>2
      <3>3. Reusable => snapshot # NoOne /\ arena # NoOne
        <4>1. Reusable => arena # NoOne
          BY <2>3 DEF Prepared, Reusable
        <4>2. status = "ready" /\ arena # NoOne => snapshot = arena
          BY DEF OwnerInv, SessionInv, OnlyVerifiedReused
        <4> QED BY <4>1, <4>2 DEF Reusable
      <3> QED BY <3>1, <3>2, <3>3
    <2>4. ASSUME pc = "preparing"
          PROVE  \/ status = "pending" /\ snapshot = NoOne /\ recipes = NoOne /\ arena # NoOne
                 \/ status = "borrowed" /\ recipes # NoOne /\ recipes = arena
      BY <2>4 DEF OwnerInv, SessionInv, OnlyVerifiedReused, Prepared
    <2>5. ASSUME pc = "proving"
          PROVE  /\ status \in {"pending", "borrowed"} /\ planUse.st # "none"
                 /\ planUse.st = "hit" => Find(plans, Identity) # {}
      BY <2>5 DEF OwnerInv, SessionInv, Control, Apart, Open, Prepared, Find
    <2>6. ASSUME pc = "finishing"
          PROVE  /\ hostUse.st # "none"
                 /\ hostUse.st = "hit" => Find(hosts, Kind) # {}
      BY <2>6 DEF OwnerInv, SessionInv, Control, Apart, Open, Find
    <2> QED BY <2>1, <2>2, <2>3, <2>4, <2>5, <2>6 DEF CalledInTurn
  <1> QED BY <1>1, <1>2, <1>3, OwnersKnown, PTL DEF Spec

-----------------------------------------------------------------------------
(* The caches never grow past their entries.                                *)

(* Entries within the capacity, each with a clock of its own.               *)
Clocked(entries) ==
  /\ Cardinality(entries) <= Capacity
  /\ \A e \in entries : e.used \in Nat /\ e.used <= Number
  /\ \A d, e \in entries : d.used = e.used => d = e

(* The clock of this request is still to be given.                          *)
Clocks ==
  /\ Clocked(hosts) /\ Clocked(plans)
  /\ pc \in NoHostYet => \A e \in hosts : e.used # Number
  /\ pc \in NoPlanYet => \A e \in plans : e.used # Number

(* Of entries with clocks of their own, one is the least recently used.     *)
LEMMA OneLeastUsed ==
  ASSUME NEW entries, IsFiniteSet(entries), entries # {}, \A e \in entries : e.used \in Nat,
         \A d, e \in entries : d.used = e.used => d = e
  PROVE  \E v \in entries : {e \in entries : \A d \in entries : e.used <= d.used} = {v}
  <1> DEFINE Before(e) == {d \in entries : d.used < e.used}
             T == {Before(e) : e \in entries}
  <1>1. T \subseteq FiniteSubsetsOf(entries)
    <2>1. \A e \in entries : IsFiniteSet(Before(e))
      BY FS_Subset
    <2> QED BY <2>1 DEF FiniteSubsetsOf
  <1>2. T # {}
    <2>1. PICK e \in entries : TRUE
      OBVIOUS
    <2>2. Before(e) \in T
      OBVIOUS
    <2> QED BY <2>2
  <1>3. IsWellFoundedOn(StrictSubsetOrdering(entries), FiniteSubsetsOf(entries))
    BY FS_StrictSubsetOrderingWellFounded
  <1> HIDE DEF T
  <1>4. PICK t \in T : \A s \in T : ~(<<s, t>> \in StrictSubsetOrdering(entries))
    BY <1>1, <1>2, <1>3, WFMin
  <1>5. PICK v \in entries : t = Before(v)
    BY <1>4 DEF T
  <1>6. ASSUME NEW d \in entries, d.used < v.used
        PROVE  FALSE
    <2>1. Before(d) \subseteq Before(v) /\ d \in Before(v) /\ d \notin Before(d)
      BY <1>6
    <2>2. Before(d) \subseteq entries /\ Before(v) \subseteq entries /\ Before(d) # Before(v)
      BY <2>1
    <2>3. Before(d) \in T
      BY DEF T
    <2> HIDE DEF Before
    <2>4. <<Before(d), Before(v)>> \in StrictSubsetOrdering(entries)
      BY <2>1, <2>2 DEF StrictSubsetOrdering
    <2> QED BY <1>4, <1>5, <2>3, <2>4
  <1>7. \A d \in entries : v.used <= d.used
    BY <1>6
  <1>8. \A e \in entries : (\A d \in entries : e.used <= d.used) => e.used = v.used
    BY <1>7
  <1> HIDE DEF Before
  <1> QED BY <1>7, <1>8

(* A full cache has one victim, a cache that is not full none.              *)
LEMMA OneVictim ==
  ASSUME NEW entries, IsFiniteSet(entries), Clocked(entries)
  PROVE  IF Cardinality(entries) = Capacity THEN \E v \in entries : Victims(entries) = {v}
         ELSE Victims(entries) = {}
  <1>1. Cardinality(entries) \in Nat /\ Capacity \in Nat \ {0}
    BY FS_CardinalityType, SessionAssumption
  <1>2. CASE Cardinality(entries) = Capacity
    <2>1. entries # {}
      BY <1>1, <1>2, FS_EmptySet
    <2>2. Victims(entries) = {e \in entries : \A d \in entries : e.used <= d.used}
      BY <1>1, <1>2 DEF Victims
    <2> QED BY <1>2, <2>1, <2>2, OneLeastUsed DEF Clocked
  <1>3. CASE Cardinality(entries) # Capacity
    BY <1>1, <1>3 DEF Victims, Clocked
  <1> QED BY <1>2, <1>3

(* A commit keeps the cache within its capacity.                            *)
LEMMA CommitClocked ==
  ASSUME NEW entries, IsFiniteSet(entries), Clocked(entries), NEW use, NEW k,
         \A e \in entries : e.used # Number, Number \in Nat,
         \/ use.st = "hit" /\ Find(entries, k) # {}
         \/ use.st = "pending"
  PROVE  Clocked(Committed(entries, use, k))
  <1> DEFINE gone == IF use.st = "hit" THEN Find(entries, k) ELSE Victims(entries)
             new == [key |-> k, made |-> use.made, used |-> Number]
             kept == entries \ gone
  <1>1. Committed(entries, use, k) = kept \union {new} /\ new.used = Number
    BY DEF Committed
  <1>2. gone \subseteq entries
    BY DEF Find, Victims
  <1>3. Cardinality(entries) \in Nat /\ Capacity \in Nat /\ Cardinality(entries) <= Capacity
    BY FS_CardinalityType, SessionAssumption DEF Clocked
  <1>4. gone = {} => Cardinality(entries) < Capacity
    <2>1. use.st # "hit" /\ Cardinality(entries) = Capacity => gone # {}
      BY OneVictim
    <2> QED BY <1>3, <2>1
  <1> HIDE DEF gone
  <1>5. IsFiniteSet(kept) /\ Cardinality(kept) \in Nat /\ Cardinality(kept) <= Cardinality(entries)
    BY FS_Subset, FS_CardinalityType
  <1>6. kept # entries => Cardinality(kept) # Cardinality(entries)
    BY FS_Subset
  <1>7. kept = entries => gone = {}
    BY <1>2
  <1>8. Cardinality(kept) + 1 <= Capacity
    BY <1>3, <1>4, <1>5, <1>6, <1>7
  <1>9. \A e \in kept : e.used \in Nat /\ e.used <= Number /\ e.used # Number
    BY DEF Clocked
  <1>10. \A d, e \in kept : d.used = e.used => d = e
    BY DEF Clocked
  <1> HIDE DEF kept, new
  <1>11. Cardinality(kept \union {new}) <= Capacity
    <2>1. CASE new \in kept
      <3>1. kept \union {new} = kept
        BY <2>1
      <3>2. Cardinality(kept \union {new}) = Cardinality(kept)
        BY <3>1
      <3> QED BY <1>3, <1>5, <1>8, <3>2
    <2>2. CASE new \notin kept
      <3>1. Cardinality(kept \union {new}) = Cardinality(kept) + 1
        BY <1>5, <2>2, FS_AddElement
      <3> QED BY <1>8, <3>1
    <2> QED BY <2>1, <2>2
  <1>12. \A e \in kept \union {new} : e.used \in Nat /\ e.used <= Number
    BY <1>1, <1>9
  <1>13. \A d, e \in kept \union {new} : d.used = e.used => d = e
    BY <1>1, <1>9, <1>10
  <1> QED BY <1>1, <1>11, <1>12, <1>13 DEF Clocked

LEMMA ClocksStep ==
  ASSUME OwnerInv, Clocks, [Next]_vars
  PROVE  Clocks'
  <1> DEFINE Fewer ==
        /\ UNCHANGED asked /\ hosts' \subseteq hosts /\ plans' \subseteq plans
        /\ pc' \in NoHostYet => pc \in NoHostYet
        /\ pc' \in NoPlanYet => pc \in NoPlanYet
  <1>1. IsFiniteSet(hosts) /\ IsFiniteSet(plans) /\ Number \in Nat /\ Capacity \in Nat
    BY Counting, SessionAssumption DEF OwnerInv, SessionInv, Finite
  <1>2. ASSUME NEW entries, NEW rest, IsFiniteSet(entries), rest \subseteq entries,
               Clocked(entries), Number' = Number
        PROVE  Clocked(rest)'
    <2>1. Cardinality(rest) <= Cardinality(entries) /\ Cardinality(rest) \in Nat
          /\ Cardinality(entries) \in Nat
      BY <1>2, FS_Subset, FS_CardinalityType
    <2>2. Cardinality(rest) <= Capacity
      BY <1>1, <1>2, <2>1 DEF Clocked
    <2> QED BY <1>2, <2>2 DEF Clocked
  <1>3. ASSUME Fewer PROVE Clocks'
    <2>1. Number' = Number
      BY <1>3 DEF Number
    <2>2. Clocked(hosts)' /\ Clocked(plans)'
      BY <1>1, <1>2, <1>3, <2>1 DEF Clocks, Clocked
    <2> QED BY <1>3, <2>1, <2>2 DEF Clocks
  <1>4. ASSUME NEW k \in Kinds, Receive(k) PROVE Clocks'
    <2>1. Number' = Number + 1 /\ hosts' = hosts /\ plans' = plans
      BY <1>1, <1>4 DEF Receive, Number, geometry, OwnerInv, SessionInv, TypeOK
    <2> QED BY <1>1, <2>1 DEF Clocks, Clocked
  <1>5. CASE CommitState
    <2>1. Number' = Number /\ hosts' = hosts /\ plans' = Committed(plans, planUse, Identity)
      BY <1>5 DEF CommitState, Number
    <2>2. planUse.st = "pending" \/ (planUse.st = "hit" /\ Find(plans, Identity) # {})
      BY <1>5 DEF CommitState, OwnerInv, SessionInv, TypeOK, Control, Uses, Apart, Open, Find
    <2>3. Clocked(Committed(plans, planUse, Identity))
      BY <1>1, <1>5, <2>2, CommitClocked DEF Clocks, CommitState, NoPlanYet
    <2>4. Clocked(hosts)' /\ Clocked(plans)'
      BY <2>1, <2>3 DEF Clocks, Clocked
    <2> QED BY <1>5, <2>1, <2>4 DEF Clocks, CommitState, NoHostYet, NoPlanYet, Borrowed
  <1>6. CASE Finish
    <2>1. Number' = Number /\ plans' = plans /\ hosts' = Committed(hosts, hostUse, Kind)
      BY <1>6 DEF Finish, Number
    <2>2. hostUse.st = "pending" \/ (hostUse.st = "hit" /\ Find(hosts, Kind) # {})
      BY <1>6 DEF Finish, OwnerInv, SessionInv, TypeOK, Control, Uses, Apart, Open, Find
    <2>3. Clocked(Committed(hosts, hostUse, Kind))
      BY <1>1, <1>6, <2>2, CommitClocked DEF Clocks, Finish, NoHostYet
    <2>4. Clocked(hosts)' /\ Clocked(plans)'
      BY <2>1, <2>3 DEF Clocks, Clocked
    <2> QED BY <1>6, <2>1, <2>4 DEF Clocks, Finish, NoHostYet, NoPlanYet, Borrowed
  <1>7. ASSUME \/ Stop \/ AcquireHost \/ FindPlan \/ Restore \/ Place \/ Install \/ Borrow
               \/ CheckAbsent \/ LinkProof \/ LinkReport
        PROVE  Fewer
    BY <1>7 DEF Stop, AcquireHost, FindPlan, Restore, Place, Install, Borrow, CheckAbsent, LinkProof,
                LinkReport, geometry, NoHostYet, NoPlanYet, Borrowed
  <1>8. ASSUME \/ Withdraw \/ Answer \/ Refuse \/ Fail \/ ErrorFrame \/ Leave \/ Kill
               \/ (\E p \in Paths : Take(p)) \/ UNCHANGED vars
        PROVE  Fewer
    BY <1>8 DEF Withdraw, Answer, Refuse, Fail, Poison, ErrorFrame, Leave, Kill, Take, vars, geometry,
                NoHostYet, NoPlanYet, Borrowed
  <1> QED BY <1>3, <1>4, <1>5, <1>6, <1>7, <1>8 DEF Next

(* What fits the arrays that the caches keep their entries in.              *)
CachesFit ==
  \A entries \in {hosts, plans} :
    /\ Cardinality(entries) <= Capacity
    /\ \A d, e \in entries : d.key = e.key => d = e
    /\ IF Cardinality(entries) = Capacity THEN \E v \in entries : Victims(entries) = {v}
       ELSE Victims(entries) = {}

(* Through any sequence of hits, commits, failures and evictions a cache    *)
(* keeps one entry of each key in the capacity it has, and chooseVictim     *)
(* (state.zig 278-285, metal_arena_plan/main.zig 483-492) has one entry to  *)
(* choose when it is full: no two were committed by the same clock.         *)
THEOREM CachesBounded == Spec => []CachesFit
  <1>1. Init => Clocks
    BY FS_EmptySet, SessionAssumption DEF Init, Clocks, Clocked
  <1>2. OwnerInv /\ Clocks /\ [Next]_vars => Clocks'
    BY ClocksStep
  <1>3. OwnerInv /\ Clocks => CachesFit
    <2> SUFFICES ASSUME OwnerInv, Clocks, NEW entries \in {hosts, plans}
                 PROVE  /\ Cardinality(entries) <= Capacity
                        /\ \A d, e \in entries : d.key = e.key => d = e
                        /\ IF Cardinality(entries) = Capacity
                             THEN \E v \in entries : Victims(entries) = {v}
                           ELSE Victims(entries) = {}
      BY DEF CachesFit
    <2>1. IsFiniteSet(entries) /\ Clocked(entries) /\ Distinct(entries)
      BY DEF OwnerInv, SessionInv, Finite, Clocks, Apart
    <2> QED BY <2>1, OneVictim DEF Clocked, Distinct
  <1> QED BY <1>1, <1>2, <1>3, OwnersKnown, PTL DEF Spec

=============================================================================
