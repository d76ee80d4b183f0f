------------------------ MODULE DeferredCommitProofs ------------------------
(***************************************************************************)
(* Proofs, for any number of trees and of mixed data, about DeferredCommit. *)
(* SchemeInv is inductive: it says who may be where (Control), that the    *)
(* worker, its slot and pending_commit agree (WorkerReaped, OneWorker) and *)
(* that every commit made is in the trees, in flight or under way          *)
(* (InOrder). The last makes the deferral invisible: while a first root is *)
(* owed, no other tree and no data can have reached the channel. From it   *)
(* follow the refinement of SequentialCommit and, with Storage, that no    *)
(* column storage leaks but by a build that fails and loses it. A rank     *)
(* shows that each step of a call brings its return nearer.                *)
(***************************************************************************)
EXTENDS DeferredCommit, TLAPS, FiniteSetTheorems

(* The main thread is inside a commit of tree `cur`.                       *)
Committing ==
  \/ pc \in {"preparing", "hashing", "appending"}
  \/ pc \in {"joining", "reentering"} /\ after = "appending"

(* How far a call is agrees with where a resolution will return to, with   *)
(* the armed errdefers and with the scheme being alive.                    *)
Control ==
  /\ pc # "open" => alive
  /\ pc \notin {"open", "closing"} => ~failed
  /\ pc \in {"preparing", "hashing", "appending"} => after = "appending"
  /\ pc = "flushing" => after = "flushing"
  /\ pc \in {"joining", "reentering"} => after \in {"appending", "flushing"}
  /\ pc = "preparing" => armed <= 1
  /\ pc = "hashing" => armed <= 2

(* The worker, its slot and pending_commit tell the same story.            *)
OneWorker ==
  /\ deferred \in {0, 1}
  /\ worker = "none" <=> deferred = 0
  /\ deferred <= cur
  /\ worker \in {"preparing", "hashing"} => slot = "empty"
  /\ worker = "exited" => slot \in {"tree", "err"}
  /\ pc \in {"joining", "reentering"} => pending = "none"
  /\ pc = "reentering" => slot = "tree"
  /\ InFlight => trees = <<>> /\ deferred = 1
  /\ ~alive => pending = "none"

(* Every commit made is in `trees`, except the one in flight and the one   *)
(* under way.                                                              *)
InOrder ==
  Good =>
    /\ cur = Len(trees) + (IF InFlight THEN 1 ELSE 0) + (IF Committing THEN 1 ELSE 0)
    /\ pending # "none" => ~flushed /\ (cur = 2 => Committing)
    /\ deferred # 0 => InFlight \/ trees # <<>>

SchemeInv ==
  /\ TypeOK
  /\ Control
  /\ WorkerReaped
  /\ OneWorker
  /\ OwedRootIsFirst
  /\ InOrder

(* What the channel absorbs.                                               *)
LEMMA AbsorbedType == \A k \in Nat : Root(k) \in Absorbed /\ Data(k) \in Absorbed
  BY DEF Root, Data, Absorbed

(* Giving storage back only counts up, and what is lost is a commit's.     *)
LEMMA DisposeType ==
  ASSUME TypeOK, NEW k \in Commits, NEW exit \in Exits, NEW n \in Nat, Dispose(k, exit, n)
  PROVE  freed' \in [Commits -> Nat] /\ lost' \subseteq Commits
<1>1. Released(exit, n) \in Nat
  BY DEF Released
<1>2. freed[k] + Released(exit, n) \in Nat
  BY <1>1 DEF TypeOK
<1> QED BY <1>2 DEF TypeOK, Dispose, GiveBack

(* A tree is released once or not at all.                                  *)
LEMMA OneOrNone == \A k, S : Cardinality({k} \cap S) = IF k \in S THEN 1 ELSE 0
<1> TAKE k, S
<1>1. CASE k \in S
  <2>1. {k} \cap S = {k} BY <1>1
  <2> QED BY <1>1, <2>1, FS_Singleton
<1>2. CASE k \notin S
  <2>1. {k} \cap S = {} BY <1>2
  <2> QED BY <1>2, <2>1, FS_EmptySet
<1> QED BY <1>1, <1>2

(* TypeOK in two halves: numbers and storage, and the states of the parts. *)
NumberTypes ==
  /\ cur \in 0 .. NumCommits /\ deferred \in 0 .. NumCommits
  /\ armed \in 0 .. 3 /\ mixes \in 0 .. MaxMixes /\ destroyed \in 0 .. 1
  /\ trees \in Seq(Commits) /\ seen \in Seq(Commits)
  /\ transcript \in Seq(Absorbed) /\ freed \in [Commits -> Nat] /\ lost \subseteq Commits

StateTypes ==
  /\ pc \in {"open", "preparing", "hashing", "appending", "flushing", "joining",
             "reentering", "observing", "closing"}
  /\ kind \in Kinds \union {"owned", "borrowed"}
  /\ after \in {"open", "appending", "flushing"}
  /\ pending \in {"none", "building", "unmixed"}
  /\ worker \in {"none", "preparing", "hashing", "exited", "joined"}
  /\ slot \in {"absent", "empty", "tree", "err"}
  /\ flushed \in BOOLEAN /\ failed \in BOOLEAN /\ alive \in BOOLEAN

(* Every step keeps the invariant.                                         *)
LEMMA Steps == ASSUME SchemeInv, Next PROVE SchemeInv'
<1> USE CommitsAssumption DEF SchemeInv, InFlight, Good, Committing, call, build, caller, fate
<1>1. ASSUME NEW k \in Kinds, CallCommit(k) PROVE SchemeInv'
  <2>1. pc = "open" /\ alive /\ ~failed /\ cur \in 0 .. NumCommits - 2
        /\ cur' = cur + 1 /\ k \in Kinds
        /\ flushed' = FALSE
        /\ UNCHANGED <<trees, transcript, mixes, seen, failed, alive, freed, lost, destroyed>>
    BY <1>1 DEF TypeOK, CallCommit, CallerReady
  <2>2. CASE Spawn
    <3>1. cur = 0 /\ trees = <<>> /\ pending = "none" /\ deferred = 0
      BY <2>1, <2>2 DEF Spawn, CanDefer, TypeOK, InOrder, OneWorker
    <3>2. worker = "none" /\ slot = "absent" /\ destroyed = 0
      BY <2>1, <3>1 DEF OneWorker, WorkerReaped
    <3>3. NumberTypes'
      BY <2>1, <2>2, <3>1 DEF TypeOK, Spawn, NumberTypes
    <3>4. StateTypes'
      BY <2>1, <2>2, <3>1 DEF TypeOK, Spawn, StateTypes
    <3>5. Control' /\ OneWorker' /\ WorkerReaped' /\ OwedRootIsFirst' /\ InOrder'
      BY <2>1, <2>2, <3>1, <3>2 DEF Spawn, Control, OneWorker, WorkerReaped,
          OwedRootIsFirst, InOrder
    <3> QED BY <3>3, <3>4, <3>5 DEF TypeOK, NumberTypes, StateTypes
  <2>3. CASE BeginBuild(k)
    <3>1. NumberTypes' /\ StateTypes'
      <4>1. NumberTypes'
        BY <2>1, <2>3 DEF TypeOK, BeginBuild, NumberTypes
      <4>2. StateTypes'
        BY <2>1, <2>3 DEF TypeOK, BeginBuild, StateTypes
      <4> QED BY <4>1, <4>2
    <3>2. Control' /\ OneWorker' /\ WorkerReaped'
      BY <2>1, <2>3, <3>1 DEF BeginBuild, TypeOK, Control, OneWorker, WorkerReaped
    <3>3. OwedRootIsFirst'
      BY <2>1, <2>3, <3>1 DEF BeginBuild, TypeOK, Control, OneWorker,
          OwedRootIsFirst, InOrder
    <3>4. InOrder'
      <4>1. /\ cur = Len(trees) + (IF InFlight THEN 1 ELSE 0) /\ Len(trees) \in Nat
            /\ (InFlight' <=> InFlight) /\ Committing' /\ trees' = trees
        BY <2>1, <2>3 DEF BeginBuild, TypeOK, InOrder
      <4>2. (pending # "none" => ~flushed /\ (cur = 2 => Committing))'
        BY <2>1, <2>3 DEF BeginBuild
      <4>3. (deferred # 0 => InFlight \/ trees # <<>>)'
        BY <2>1, <2>3, <4>1 DEF BeginBuild, InOrder
      <4>4. cur' = Len(trees') + (IF InFlight' THEN 1 ELSE 0) + (IF Committing' THEN 1 ELSE 0)
        BY <2>1, <4>1
      <4> QED BY <4>2, <4>3, <4>4 DEF InOrder
    <3> QED BY <3>1, <3>2, <3>3, <3>4 DEF TypeOK, NumberTypes, StateTypes
  <2> QED BY <1>1, <2>2, <2>3 DEF CallCommit
<1>2. ASSUME CallProve PROVE SchemeInv'
  <2>1. transcript' \in Seq(Absorbed) /\ cur' \in 0 .. NumCommits
    BY <1>2, AbsorbedType DEF TypeOK, CallProve, CallerReady, BeginBuild
  <2>2. TypeOK'
    <3>1. NumberTypes'
      BY <1>2, <2>1, AbsorbedType DEF TypeOK, NumberTypes, Control, CallProve,
          CallerReady, BeginBuild
    <3>2. StateTypes'
      BY <1>2, <2>1, AbsorbedType DEF TypeOK, StateTypes, OneWorker, OwedRootIsFirst,
          WorkerReaped, CallProve, CallerReady, BeginBuild
    <3> QED BY <3>1, <3>2 DEF TypeOK, NumberTypes, StateTypes
  <2>3. Control' /\ OneWorker' /\ OwedRootIsFirst'
    BY <1>2, <2>1, AbsorbedType DEF TypeOK, Control, OneWorker, WorkerReaped,
        OwedRootIsFirst, InOrder, CallProve, CallerReady, BeginBuild
  <2>4. WorkerReaped'
    BY <1>2, <2>1, AbsorbedType DEF TypeOK, Control, OneWorker, WorkerReaped,
        OwedRootIsFirst, InOrder, CallProve, CallerReady, BeginBuild
  <2>5. InOrder'
    BY <1>2, <2>1, AbsorbedType DEF TypeOK, Control, OneWorker, WorkerReaped,
        OwedRootIsFirst, InOrder, CallProve, CallerReady, BeginBuild
  <2> QED BY <2>2, <2>3, <2>4, <2>5
<1>3. ASSUME CallerMixes PROVE SchemeInv'
  <2>1. TypeOK'
    BY <1>3, AbsorbedType DEF TypeOK, Control, OneWorker, WorkerReaped,
        OwedRootIsFirst, CallerMixes, CallerReady
  <2>2. Control' /\ OneWorker' /\ OwedRootIsFirst'
    BY <1>3, AbsorbedType DEF TypeOK, Control, OneWorker, WorkerReaped,
        OwedRootIsFirst, InOrder, CallerMixes, CallerReady
  <2>3. WorkerReaped'
    BY <1>3, AbsorbedType DEF TypeOK, Control, OneWorker, WorkerReaped,
        OwedRootIsFirst, InOrder, CallerMixes, CallerReady
  <2>4. InOrder'
    BY <1>3, AbsorbedType DEF TypeOK, Control, OneWorker, WorkerReaped,
        OwedRootIsFirst, InOrder, CallerMixes, CallerReady
  <2> QED BY <2>1, <2>2, <2>3, <2>4
<1>4. ASSUME CallFlush PROVE SchemeInv'
  <2>1. TypeOK'
    BY <1>4 DEF TypeOK, Control, OneWorker, WorkerReaped, OwedRootIsFirst, CallFlush,
        CallerReady
  <2>2. Control' /\ OneWorker' /\ OwedRootIsFirst'
    BY <1>4 DEF TypeOK, Control, OneWorker, WorkerReaped, OwedRootIsFirst, InOrder,
        CallFlush, CallerReady
  <2>3. WorkerReaped'
    BY <1>4 DEF TypeOK, Control, OneWorker, WorkerReaped, OwedRootIsFirst, InOrder,
        CallFlush, CallerReady
  <2>4. InOrder'
    BY <1>4 DEF TypeOK, Control, OneWorker, WorkerReaped, OwedRootIsFirst, InOrder,
        CallFlush, CallerReady
  <2> QED BY <2>1, <2>2, <2>3, <2>4
<1>5. ASSUME CallRoots PROVE SchemeInv'
  <2>1. TypeOK'
    BY <1>5 DEF TypeOK, Control, OneWorker, WorkerReaped, OwedRootIsFirst, CallRoots,
        CallerReady
  <2>2. Control' /\ OneWorker' /\ OwedRootIsFirst'
    BY <1>5 DEF TypeOK, Control, OneWorker, WorkerReaped, OwedRootIsFirst, InOrder,
        CallRoots, CallerReady
  <2>3. WorkerReaped'
    BY <1>5 DEF TypeOK, Control, OneWorker, WorkerReaped, OwedRootIsFirst, InOrder,
        CallRoots, CallerReady
  <2>4. InOrder'
    BY <1>5 DEF TypeOK, Control, OneWorker, WorkerReaped, OwedRootIsFirst, InOrder,
        CallRoots, CallerReady
  <2> QED BY <2>1, <2>2, <2>3, <2>4
<1>6. ASSUME CallDeinit PROVE SchemeInv'
  <2>1. TypeOK'
    BY <1>6 DEF TypeOK, Control, OneWorker, WorkerReaped, OwedRootIsFirst, CallDeinit
  <2>2. Control' /\ OneWorker' /\ OwedRootIsFirst'
    BY <1>6 DEF TypeOK, Control, OneWorker, WorkerReaped, OwedRootIsFirst, InOrder,
        CallDeinit
  <2>3. WorkerReaped'
    BY <1>6 DEF TypeOK, Control, OneWorker, WorkerReaped, OwedRootIsFirst, InOrder,
        CallDeinit
  <2>4. InOrder'
    BY <1>6 DEF TypeOK, Control, OneWorker, WorkerReaped, OwedRootIsFirst, InOrder,
        CallDeinit
  <2> QED BY <2>1, <2>2, <2>3, <2>4
<1>7. ASSUME NEW exit \in Exits, PrepareFails(exit) PROVE SchemeInv'
  <2>0. cur \in Commits
    BY <1>7 DEF PrepareFails, TypeOK, Control, InOrder, Commits
  <2>1. freed' \in [Commits -> Nat] /\ lost' \subseteq Commits
    BY <1>7, <2>0, DisposeType DEF TypeOK, PrepareFails, BuildFails
  <2>2. TypeOK'
    BY <1>7, <2>1 DEF TypeOK, Control, OneWorker, WorkerReaped,
        OwedRootIsFirst, PrepareFails, BuildFails
  <2>3. Control' /\ OneWorker' /\ OwedRootIsFirst'
    BY <1>7, <2>1 DEF TypeOK, Control, OneWorker, WorkerReaped,
        OwedRootIsFirst, InOrder, PrepareFails, BuildFails
  <2>4. WorkerReaped'
    BY <1>7, <2>1 DEF TypeOK, Control, OneWorker, WorkerReaped,
        OwedRootIsFirst, InOrder, PrepareFails, BuildFails
  <2>5. InOrder'
    BY <1>7, <2>1 DEF TypeOK, Control, OneWorker, WorkerReaped,
        OwedRootIsFirst, InOrder, PrepareFails, BuildFails
  <2> QED BY <2>2, <2>3, <2>4, <2>5
<1>8. ASSUME Prepared PROVE SchemeInv'
  <2>1. TypeOK'
    BY <1>8 DEF TypeOK, Control, OneWorker, WorkerReaped, OwedRootIsFirst, Prepared
  <2>2. Control' /\ OneWorker' /\ OwedRootIsFirst'
    BY <1>8 DEF TypeOK, Control, OneWorker, WorkerReaped, OwedRootIsFirst, InOrder,
        Prepared
  <2>3. WorkerReaped'
    BY <1>8 DEF TypeOK, Control, OneWorker, WorkerReaped, OwedRootIsFirst, InOrder,
        Prepared
  <2>4. InOrder'
    BY <1>8 DEF TypeOK, Control, OneWorker, WorkerReaped, OwedRootIsFirst, InOrder,
        Prepared
  <2> QED BY <2>1, <2>2, <2>3, <2>4
<1>9. ASSUME NEW exit \in Exits, HashFails(exit) PROVE SchemeInv'
  <2>0. cur \in Commits
    BY <1>9 DEF HashFails, TypeOK, Control, InOrder, Commits
  <2>1. freed' \in [Commits -> Nat] /\ lost' \subseteq Commits
    BY <1>9, <2>0, DisposeType DEF TypeOK, HashFails, BuildFails
  <2>2. TypeOK'
    BY <1>9, <2>1 DEF TypeOK, Control, OneWorker, WorkerReaped,
        OwedRootIsFirst, HashFails, BuildFails
  <2>3. Control' /\ OneWorker' /\ OwedRootIsFirst'
    BY <1>9, <2>1 DEF TypeOK, Control, OneWorker, WorkerReaped,
        OwedRootIsFirst, InOrder, HashFails, BuildFails
  <2>4. WorkerReaped'
    BY <1>9, <2>1 DEF TypeOK, Control, OneWorker, WorkerReaped,
        OwedRootIsFirst, InOrder, HashFails, BuildFails
  <2>5. InOrder'
    BY <1>9, <2>1 DEF TypeOK, Control, OneWorker, WorkerReaped,
        OwedRootIsFirst, InOrder, HashFails, BuildFails
  <2> QED BY <2>2, <2>3, <2>4, <2>5
<1>10. ASSUME Hashed PROVE SchemeInv'
  <2>1. TypeOK'
    BY <1>10 DEF TypeOK, Control, OneWorker, WorkerReaped, OwedRootIsFirst, Hashed
  <2>2. Control' /\ OneWorker' /\ OwedRootIsFirst'
    BY <1>10 DEF TypeOK, Control, OneWorker, WorkerReaped, OwedRootIsFirst, InOrder,
        Hashed
  <2>3. WorkerReaped'
    BY <1>10 DEF TypeOK, Control, OneWorker, WorkerReaped, OwedRootIsFirst, InOrder,
        Hashed
  <2>4. InOrder'
    BY <1>10 DEF TypeOK, Control, OneWorker, WorkerReaped, OwedRootIsFirst, InOrder,
        Hashed
  <2> QED BY <2>1, <2>2, <2>3, <2>4
<1>11. ASSUME MixOwedRoot PROVE SchemeInv'
  <2>1. TypeOK'
    BY <1>11, AbsorbedType DEF TypeOK, Control, OneWorker, WorkerReaped,
        OwedRootIsFirst, MixOwedRoot, Resolving, DestroySlot
  <2>2. Control' /\ OneWorker' /\ OwedRootIsFirst'
    BY <1>11, AbsorbedType DEF TypeOK, Control, OneWorker, WorkerReaped,
        OwedRootIsFirst, InOrder, MixOwedRoot, Resolving, DestroySlot
  <2>3. WorkerReaped'
    BY <1>11, AbsorbedType DEF TypeOK, Control, OneWorker, WorkerReaped,
        OwedRootIsFirst, InOrder, MixOwedRoot, Resolving, DestroySlot
  <2>4. InOrder'
    BY <1>11, AbsorbedType DEF TypeOK, Control, OneWorker, WorkerReaped,
        OwedRootIsFirst, InOrder, MixOwedRoot, Resolving, DestroySlot
  <2> QED BY <2>1, <2>2, <2>3, <2>4
<1>12. ASSUME BeginJoin PROVE SchemeInv'
  <2>1. TypeOK'
    BY <1>12 DEF TypeOK, Control, OneWorker, WorkerReaped, OwedRootIsFirst,
        BeginJoin, Resolving, ClearPending
  <2>2. Control' /\ OneWorker' /\ OwedRootIsFirst'
    BY <1>12 DEF TypeOK, Control, OneWorker, WorkerReaped, OwedRootIsFirst, InOrder,
        BeginJoin, Resolving, ClearPending
  <2>3. WorkerReaped'
    BY <1>12 DEF TypeOK, Control, OneWorker, WorkerReaped, OwedRootIsFirst, InOrder,
        BeginJoin, Resolving, ClearPending
  <2>4. InOrder'
    BY <1>12 DEF TypeOK, Control, OneWorker, WorkerReaped, OwedRootIsFirst, InOrder,
        BeginJoin, Resolving, ClearPending
  <2> QED BY <2>1, <2>2, <2>3, <2>4
<1>13. ASSUME JoinFails PROVE SchemeInv'
  <2>1. TypeOK'
    BY <1>13 DEF TypeOK, Control, OneWorker, WorkerReaped, OwedRootIsFirst,
        JoinFails, Joinable, DestroySlot, Fails
  <2>2. Control' /\ OneWorker' /\ OwedRootIsFirst'
    BY <1>13 DEF TypeOK, Control, OneWorker, WorkerReaped, OwedRootIsFirst, InOrder,
        JoinFails, Joinable, DestroySlot, Fails
  <2>3. WorkerReaped'
    BY <1>13 DEF TypeOK, Control, OneWorker, WorkerReaped, OwedRootIsFirst, InOrder,
        JoinFails, Joinable, DestroySlot, Fails
  <2>4. InOrder'
    BY <1>13 DEF TypeOK, Control, OneWorker, WorkerReaped, OwedRootIsFirst, InOrder,
        JoinFails, Joinable, DestroySlot, Fails
  <2> QED BY <2>1, <2>2, <2>3, <2>4
<1>14. ASSUME Joined PROVE SchemeInv'
  <2>1. TypeOK'
    BY <1>14 DEF TypeOK, Control, OneWorker, WorkerReaped, OwedRootIsFirst, Joined,
        Joinable
  <2>2. Control' /\ OneWorker' /\ OwedRootIsFirst'
    BY <1>14 DEF TypeOK, Control, OneWorker, WorkerReaped, OwedRootIsFirst, InOrder,
        Joined, Joinable
  <2>3. WorkerReaped'
    BY <1>14 DEF TypeOK, Control, OneWorker, WorkerReaped, OwedRootIsFirst, InOrder,
        Joined, Joinable
  <2>4. InOrder'
    BY <1>14 DEF TypeOK, Control, OneWorker, WorkerReaped, OwedRootIsFirst, InOrder,
        Joined, Joinable
  <2> QED BY <2>1, <2>2, <2>3, <2>4
<1>15. ASSUME ReentryFails PROVE SchemeInv'
  <2>1. TypeOK'
    BY <1>15 DEF TypeOK, Control, OneWorker, WorkerReaped, OwedRootIsFirst,
        ReentryFails, DestroySlot, Fails
  <2>2. Control' /\ OneWorker' /\ OwedRootIsFirst'
    BY <1>15 DEF TypeOK, Control, OneWorker, WorkerReaped, OwedRootIsFirst, InOrder,
        ReentryFails, DestroySlot, Fails
  <2>3. WorkerReaped'
    <3>1. (worker \notin {"none", "joined"})' <=> (pending = "building" \/ pc = "joining")'
      BY <1>15 DEF TypeOK, Control, OneWorker, WorkerReaped, OwedRootIsFirst,
          InOrder, ReentryFails, DestroySlot, Fails
    <3>2. (slot # "absent")' <=> (pending # "none" \/ pc \in {"joining", "reentering"})'
      BY <1>15 DEF TypeOK, Control, OneWorker, WorkerReaped, OwedRootIsFirst,
          InOrder, ReentryFails, DestroySlot, Fails
    <3>3. destroyed' = IF deferred' # 0 /\ slot' = "absent" THEN 1 ELSE 0
      BY <1>15 DEF TypeOK, Control, OneWorker, WorkerReaped, OwedRootIsFirst,
          InOrder, ReentryFails, DestroySlot, Fails
    <3> QED BY <3>1, <3>2, <3>3 DEF WorkerReaped
  <2>4. InOrder'
    BY <1>15 DEF TypeOK, Control, OneWorker, WorkerReaped, OwedRootIsFirst, InOrder,
        ReentryFails, DestroySlot, Fails
  <2> QED BY <2>1, <2>2, <2>3, <2>4
<1>16. ASSUME Reenter PROVE SchemeInv'
  <2>1. trees = <<>> /\ deferred \in Commits /\ trees' = Append(trees, deferred)
    BY <1>16 DEF Commits, TypeOK, OneWorker, OwedRootIsFirst, WorkerReaped, Reenter,
        DestroySlot
  <2>2. trees' \in Seq(Commits)
    BY <2>1 DEF TypeOK
  <2>3. TypeOK'
    BY <1>16, <2>1, <2>2, AbsorbedType DEF TypeOK, Control, OneWorker, WorkerReaped,
        OwedRootIsFirst, Reenter, DestroySlot
  <2>4. Control' /\ OneWorker' /\ OwedRootIsFirst'
    BY <1>16, <2>1, <2>2, AbsorbedType DEF TypeOK, Control, OneWorker, WorkerReaped,
        OwedRootIsFirst, InOrder, Reenter, DestroySlot
  <2>5. WorkerReaped'
    BY <1>16, <2>1, <2>2, AbsorbedType DEF TypeOK, Control, OneWorker, WorkerReaped,
        OwedRootIsFirst, InOrder, Reenter, DestroySlot
  <2>6. InOrder'
    BY <1>16, <2>1, <2>2, AbsorbedType DEF TypeOK, Control, OneWorker, WorkerReaped,
        OwedRootIsFirst, InOrder, Reenter, DestroySlot
  <2> QED BY <2>3, <2>4, <2>5, <2>6
<1>17. ASSUME AppendTree PROVE SchemeInv'
  <2>1. cur \in Commits /\ trees' = Append(trees, cur)
    BY <1>17 DEF Commits, TypeOK, Control, InOrder, AppendTree
  <2>2. trees' \in Seq(Commits)
    BY <2>1 DEF TypeOK
  <2>3. TypeOK'
    BY <1>17, <2>1, <2>2, AbsorbedType DEF TypeOK, Control, OneWorker, WorkerReaped,
        OwedRootIsFirst, AppendTree
  <2>4. Control' /\ OneWorker' /\ OwedRootIsFirst'
    BY <1>17, <2>1, <2>2, AbsorbedType DEF TypeOK, Control, OneWorker, WorkerReaped,
        OwedRootIsFirst, InOrder, AppendTree
  <2>5. WorkerReaped'
    BY <1>17, <2>1, <2>2, AbsorbedType DEF TypeOK, Control, OneWorker, WorkerReaped,
        OwedRootIsFirst, InOrder, AppendTree
  <2>6. InOrder'
    BY <1>17, <2>1, <2>2, AbsorbedType DEF TypeOK, Control, OneWorker, WorkerReaped,
        OwedRootIsFirst, InOrder, AppendTree
  <2> QED BY <2>3, <2>4, <2>5, <2>6
<1>18. ASSUME AppendFails PROVE SchemeInv'
  <2>1. TypeOK'
    BY <1>18 DEF TypeOK, Control, OneWorker, WorkerReaped, OwedRootIsFirst,
        AppendFails, Fails
  <2>2. Control' /\ OneWorker' /\ OwedRootIsFirst'
    BY <1>18 DEF TypeOK, Control, OneWorker, WorkerReaped, OwedRootIsFirst, InOrder,
        AppendFails, Fails
  <2>3. WorkerReaped'
    BY <1>18 DEF TypeOK, Control, OneWorker, WorkerReaped, OwedRootIsFirst, InOrder,
        AppendFails, Fails
  <2>4. InOrder'
    BY <1>18 DEF TypeOK, Control, OneWorker, WorkerReaped, OwedRootIsFirst, InOrder,
        AppendFails, Fails
  <2> QED BY <2>1, <2>2, <2>3, <2>4
<1>19. ASSUME FlushDone PROVE SchemeInv'
  <2>1. TypeOK'
    BY <1>19 DEF TypeOK, Control, OneWorker, WorkerReaped, OwedRootIsFirst, FlushDone
  <2>2. Control' /\ OneWorker' /\ OwedRootIsFirst'
    BY <1>19 DEF TypeOK, Control, OneWorker, WorkerReaped, OwedRootIsFirst, InOrder,
        FlushDone
  <2>3. WorkerReaped'
    BY <1>19 DEF TypeOK, Control, OneWorker, WorkerReaped, OwedRootIsFirst, InOrder,
        FlushDone
  <2>4. InOrder'
    BY <1>19 DEF TypeOK, Control, OneWorker, WorkerReaped, OwedRootIsFirst, InOrder,
        FlushDone
  <2> QED BY <2>1, <2>2, <2>3, <2>4
<1>20. ASSUME ObserveFails PROVE SchemeInv'
  <2>1. TypeOK'
    BY <1>20 DEF TypeOK, Control, OneWorker, WorkerReaped, OwedRootIsFirst,
        ObserveFails, Joinable, DestroySlot, Fails
  <2>2. Control' /\ OneWorker' /\ OwedRootIsFirst'
    BY <1>20 DEF TypeOK, Control, OneWorker, WorkerReaped, OwedRootIsFirst, InOrder,
        ObserveFails, Joinable, DestroySlot, Fails
  <2>3. WorkerReaped'
    BY <1>20 DEF TypeOK, Control, OneWorker, WorkerReaped, OwedRootIsFirst, InOrder,
        ObserveFails, Joinable, DestroySlot, Fails
  <2>4. InOrder'
    BY <1>20 DEF TypeOK, Control, OneWorker, WorkerReaped, OwedRootIsFirst, InOrder,
        ObserveFails, Joinable, DestroySlot, Fails
  <2> QED BY <2>1, <2>2, <2>3, <2>4
<1>21. ASSUME ObserveAppends PROVE SchemeInv'
  <2>1. trees = <<>> /\ deferred \in Commits /\ trees' = Append(trees, deferred)
    BY <1>21 DEF Commits, TypeOK, OneWorker, OwedRootIsFirst, WorkerReaped,
        ObserveAppends, Joinable, Owed
  <2>2. trees' \in Seq(Commits)
    BY <2>1 DEF TypeOK
  <2>3. TypeOK'
    <3>1. NumberTypes'
      BY <1>21, <2>1, <2>2 DEF TypeOK, NumberTypes, Control, ObserveAppends,
          Joinable, Owed
    <3>2. StateTypes'
      BY <1>21, <2>1, <2>2 DEF TypeOK, StateTypes, OneWorker, OwedRootIsFirst,
          WorkerReaped, ObserveAppends, Joinable, Owed
    <3> QED BY <3>1, <3>2 DEF TypeOK, NumberTypes, StateTypes
  <2>4. Control' /\ OneWorker' /\ OwedRootIsFirst'
    BY <1>21, <2>1, <2>2 DEF TypeOK, Control, OneWorker, WorkerReaped,
        OwedRootIsFirst, InOrder, ObserveAppends, Joinable, Owed
  <2>5. WorkerReaped'
    BY <1>21, <2>1, <2>2 DEF TypeOK, Control, OneWorker, WorkerReaped,
        OwedRootIsFirst, InOrder, ObserveAppends, Joinable, Owed
  <2>6. InOrder'
    BY <1>21, <2>1, <2>2 DEF TypeOK, Control, OneWorker, WorkerReaped,
        OwedRootIsFirst, InOrder, ObserveAppends, Joinable, Owed
  <2> QED BY <2>3, <2>4, <2>5, <2>6
<1>22. ASSUME Observe PROVE SchemeInv'
  <2>1. TypeOK'
    BY <1>22 DEF TypeOK, Control, OneWorker, WorkerReaped, OwedRootIsFirst, Observe
  <2>2. Control' /\ OneWorker' /\ OwedRootIsFirst'
    BY <1>22 DEF TypeOK, Control, OneWorker, WorkerReaped, OwedRootIsFirst, InOrder,
        Observe
  <2>3. WorkerReaped'
    BY <1>22 DEF TypeOK, Control, OneWorker, WorkerReaped, OwedRootIsFirst, InOrder,
        Observe
  <2>4. InOrder'
    BY <1>22 DEF TypeOK, Control, OneWorker, WorkerReaped, OwedRootIsFirst, InOrder,
        Observe
  <2> QED BY <2>1, <2>2, <2>3, <2>4
<1>23. ASSUME RootsFail PROVE SchemeInv'
  <2>1. TypeOK'
    BY <1>23 DEF TypeOK, Control, OneWorker, WorkerReaped, OwedRootIsFirst,
        RootsFail, Fails
  <2>2. Control' /\ OneWorker' /\ OwedRootIsFirst'
    BY <1>23 DEF TypeOK, Control, OneWorker, WorkerReaped, OwedRootIsFirst, InOrder,
        RootsFail, Fails
  <2>3. WorkerReaped'
    BY <1>23 DEF TypeOK, Control, OneWorker, WorkerReaped, OwedRootIsFirst, InOrder,
        RootsFail, Fails
  <2>4. InOrder'
    BY <1>23 DEF TypeOK, Control, OneWorker, WorkerReaped, OwedRootIsFirst, InOrder,
        RootsFail, Fails
  <2> QED BY <2>1, <2>2, <2>3, <2>4
<1>24. ASSUME Deinit PROVE SchemeInv'
  <2>1. freed' \in [Commits -> Nat]
    <3>1. \A k \in Commits : freed[k] + Cardinality({k} \cap Discarded)
                                       + Cardinality({k} \cap Held) \in Nat
      BY OneOrNone, SMTT(30) DEF TypeOK
    <3> QED BY <1>24, <3>1 DEF Deinit
  <2>2. destroyed' \in 0 .. 1
    BY <1>24 DEF Deinit, Discards, DestroySlot, TypeOK, WorkerReaped
  <2>3. UNCHANGED <<cur, deferred, armed, mixes, seen, transcript, lost>> /\ trees' = <<>>
    BY <1>24 DEF Deinit
  <2>4. NumberTypes'
    BY <2>1, <2>2, <2>3 DEF TypeOK, NumberTypes
  <2>5. StateTypes'
    BY <1>24 DEF TypeOK, StateTypes, WorkerReaped, Deinit, MustJoin, Joinable,
        Discards, DestroySlot
  <2>6. TypeOK'
    BY <2>4, <2>5 DEF TypeOK, NumberTypes, StateTypes
  <2>7. Control' /\ OneWorker' /\ OwedRootIsFirst'
    BY <1>24, <2>2, <2>1 DEF TypeOK, Control, OneWorker, WorkerReaped,
        OwedRootIsFirst, InOrder, Deinit, MustJoin, Joinable, Discards, DestroySlot
  <2>8. WorkerReaped'
    BY <1>24, <2>2, <2>1 DEF TypeOK, Control, OneWorker, WorkerReaped,
        OwedRootIsFirst, InOrder, Deinit, MustJoin, Joinable, Discards, DestroySlot
  <2>9. InOrder'
    BY <1>24, <2>2, <2>1 DEF TypeOK, Control, OneWorker, WorkerReaped,
        OwedRootIsFirst, InOrder, Deinit, MustJoin, Joinable, Discards, DestroySlot
  <2> QED BY <2>6, <2>7, <2>8, <2>9
<1>25. ASSUME WorkerPrepares PROVE SchemeInv'
  <2>1. TypeOK'
    BY <1>25 DEF TypeOK, Control, OneWorker, WorkerReaped, OwedRootIsFirst,
        WorkerPrepares
  <2>2. Control' /\ OneWorker' /\ OwedRootIsFirst'
    BY <1>25 DEF TypeOK, Control, OneWorker, WorkerReaped, OwedRootIsFirst, InOrder,
        WorkerPrepares
  <2>3. WorkerReaped'
    BY <1>25 DEF TypeOK, Control, OneWorker, WorkerReaped, OwedRootIsFirst, InOrder,
        WorkerPrepares
  <2>4. InOrder'
    BY <1>25 DEF TypeOK, Control, OneWorker, WorkerReaped, OwedRootIsFirst, InOrder,
        WorkerPrepares
  <2> QED BY <2>1, <2>2, <2>3, <2>4
<1>26. ASSUME NEW exit \in Exits, WorkerPrepareFails(exit) PROVE SchemeInv'
  <2>0. deferred \in Commits
    BY <1>26 DEF WorkerPrepareFails, TypeOK, OneWorker, Commits
  <2>1. freed' \in [Commits -> Nat] /\ lost' \subseteq Commits
    BY <1>26, <2>0, DisposeType DEF WorkerPrepareFails, Exits
  <2>2. TypeOK'
    BY <1>26, <2>1 DEF TypeOK, Control, OneWorker, WorkerReaped,
        OwedRootIsFirst, WorkerPrepareFails
  <2>3. Control' /\ OneWorker' /\ OwedRootIsFirst'
    BY <1>26, <2>1 DEF TypeOK, Control, OneWorker, WorkerReaped,
        OwedRootIsFirst, InOrder, WorkerPrepareFails
  <2>4. WorkerReaped'
    BY <1>26, <2>1 DEF TypeOK, Control, OneWorker, WorkerReaped,
        OwedRootIsFirst, InOrder, WorkerPrepareFails
  <2>5. InOrder'
    BY <1>26, <2>1 DEF TypeOK, Control, OneWorker, WorkerReaped,
        OwedRootIsFirst, InOrder, WorkerPrepareFails
  <2> QED BY <2>2, <2>3, <2>4, <2>5
<1>27. ASSUME WorkerHashFails PROVE SchemeInv'
  <2>0. deferred \in Commits
    BY <1>27 DEF WorkerHashFails, TypeOK, OneWorker, Commits
  <2>1. freed' \in [Commits -> Nat] /\ lost' \subseteq Commits
    BY <1>27, <2>0, DisposeType DEF WorkerHashFails, Exits
  <2>2. TypeOK'
    BY <1>27, <2>1 DEF TypeOK, Control, OneWorker, WorkerReaped,
        OwedRootIsFirst, WorkerHashFails
  <2>3. Control' /\ OneWorker' /\ OwedRootIsFirst'
    BY <1>27, <2>1 DEF TypeOK, Control, OneWorker, WorkerReaped,
        OwedRootIsFirst, InOrder, WorkerHashFails
  <2>4. WorkerReaped'
    BY <1>27, <2>1 DEF TypeOK, Control, OneWorker, WorkerReaped,
        OwedRootIsFirst, InOrder, WorkerHashFails
  <2>5. InOrder'
    BY <1>27, <2>1 DEF TypeOK, Control, OneWorker, WorkerReaped,
        OwedRootIsFirst, InOrder, WorkerHashFails
  <2> QED BY <2>2, <2>3, <2>4, <2>5
<1>28. ASSUME WorkerHashes PROVE SchemeInv'
  <2>1. TypeOK'
    BY <1>28 DEF TypeOK, Control, OneWorker, WorkerReaped, OwedRootIsFirst, WorkerHashes
  <2>2. Control' /\ OneWorker' /\ OwedRootIsFirst'
    BY <1>28 DEF TypeOK, Control, OneWorker, WorkerReaped, OwedRootIsFirst, InOrder,
        WorkerHashes
  <2>3. WorkerReaped'
    BY <1>28 DEF TypeOK, Control, OneWorker, WorkerReaped, OwedRootIsFirst, InOrder,
        WorkerHashes
  <2>4. InOrder'
    BY <1>28 DEF TypeOK, Control, OneWorker, WorkerReaped, OwedRootIsFirst, InOrder,
        WorkerHashes
  <2> QED BY <2>1, <2>2, <2>3, <2>4
<1> QED BY <1>1, <1>2, <1>3, <1>4, <1>5, <1>6, <1>7, <1>8, <1>9, <1>10, <1>11, <1>12, <1>13, <1>14,
           <1>15, <1>16, <1>17, <1>18, <1>19, <1>20, <1>21, <1>22, <1>23, <1>24, <1>25, <1>26, <1>27, <1>28
        DEF Next, Call, Build, Resolve, Return, Work

-----------------------------------------------------------------------------
(* Refinement. A step of the scheme is a step of SequentialCommit or leaves *)
(* its variables alone.                                                    *)
SeqVars == <<seqStatus, seqTrees, seqTranscript, seqSeen>>

(* An error ends the abstract scheme, whatever else the step does.         *)
LEMMA FailRefines ==
  ASSUME SchemeInv, alive, ~failed, alive' = alive, failed' = TRUE
  PROVE  SC!Fail
  BY DEF SC!Fail, SC!Finish, seqStatus, seqTrees, seqTranscript, seqSeen, Good

(* A step of the worker, or of a scheme that failed, is not seen.          *)
LEMMA SilentRefines ==
  ASSUME SchemeInv,
         UNCHANGED <<alive, failed, seen, trees, transcript, deferred>>,
         InFlight' <=> InFlight, RootOwed' <=> RootOwed
  PROVE  UNCHANGED SeqVars
  BY DEF SeqVars, seqStatus, seqTrees, seqTranscript, seqSeen, Good, Root

(* Every step is one of SequentialCommit, or silent.                       *)
LEMMA Refines ==
  ASSUME SchemeInv, SchemeInv', Next
  PROVE  SC!Next \/ UNCHANGED SeqVars
<1> USE CommitsAssumption
<1>0. /\ trees \in Seq(Commits)
      /\ transcript \in Seq(Absorbed)
      /\ mixes \in 0 .. MaxMixes
      /\ alive \in BOOLEAN /\ failed \in BOOLEAN
  BY DEF SchemeInv, TypeOK
<1>1. ASSUME NEW k \in Kinds, CallCommit(k) PROVE SC!Next \/ UNCHANGED SeqVars
  <2>1. pc = "open" /\ Good /\ Good'
        /\ UNCHANGED <<trees, transcript, seen, alive, failed>> /\ cur' = cur + 1
        /\ cur < NumCommits - 1
    BY <1>1 DEF CallCommit, CallerReady, Good, fate
  <2>2. CASE Spawn
    <3>1. trees = <<>> /\ pending = "none" /\ cur = 0 /\ deferred' = 1
          /\ pending' = "building" /\ pc' = "open"
      BY <2>1, <2>2, <1>0 DEF Spawn, CanDefer, SchemeInv, InOrder, Committing,
          InFlight, TypeOK
    <3>2. ~InFlight /\ ~RootOwed /\ InFlight' /\ RootOwed'
      BY <2>1, <3>1 DEF InFlight, RootOwed
    <3>3. seqTrees = <<>> /\ seqTrees' = <<1>> /\ seqTranscript = transcript
          /\ seqTranscript' = Append(transcript, Root(1))
      BY <2>1, <3>1, <3>2 DEF seqTrees, seqTranscript, Root
    <3>4. seqStatus = "open" /\ UNCHANGED <<seqStatus, seqSeen>>
      BY <2>1 DEF seqStatus, seqSeen, Good
    <3>5. SC!Commit
      BY <3>3, <3>4 DEF SC!Commit, SC!Root, Root
    <3> QED BY <3>5 DEF SC!Next
  <2>3. CASE BeginBuild(k)
    BY <2>1, <2>3, SilentRefines, <1>1 DEF BeginBuild, build, InFlight, RootOwed, Good
  <2> QED BY <1>1, <2>2, <2>3 DEF CallCommit
<1>2. ASSUME CallProve \/ CallerMixes PROVE SC!Next
  <2>1. pc = "open" /\ Good /\ Good'
        /\ UNCHANGED <<trees, seen, alive, failed, pending, deferred>>
        /\ transcript' = Append(transcript, Data(mixes))
        /\ pc' \in {"open", "preparing"}
    BY <1>2 DEF CallProve, CallerMixes, CallerReady, Good, fate, BeginBuild, build
  <2>2. cur # 1 \/ flushed
    BY <1>2 DEF CallProve, CallerMixes, MayMix
  <2>3. pending = "none"
    BY <2>1, <2>2 DEF SchemeInv, InOrder, OwedRootIsFirst, Committing
  <2>4. ~InFlight /\ ~RootOwed /\ ~InFlight' /\ ~RootOwed'
    BY <2>1, <2>3 DEF InFlight, RootOwed
  <2>5. seqStatus = "open" /\ UNCHANGED <<seqStatus, seqTrees, seqSeen>>
        /\ seqTranscript' = Append(seqTranscript, Data(mixes))
    BY <2>1, <2>4 DEF seqStatus, seqTrees, seqSeen, seqTranscript, Good
  <2>6. SC!Mix(mixes)
    BY <2>5 DEF SC!Mix, SC!Data, Data
  <2> QED BY <2>6, <1>0 DEF SC!Next
<1>3. ASSUME CallFlush \/ CallRoots \/ CallDeinit PROVE UNCHANGED SeqVars
  <2>1. UNCHANGED <<alive, failed, seen, trees, transcript, deferred, pending>>
    BY <1>3 DEF CallFlush, CallRoots, CallDeinit, fate, build, caller
  <2>2. pc = "open" /\ pc' \in {"flushing", "observing", "closing"}
    BY <1>3 DEF CallFlush, CallRoots, CallDeinit, CallerReady
  <2> QED BY <2>1, <2>2, SilentRefines DEF InFlight, RootOwed
<1>4. ASSUME Prepared \/ Hashed \/ BeginJoin \/ Joined \/ FlushDone PROVE UNCHANGED SeqVars
  BY <1>4, SilentRefines DEF Prepared, Hashed, BeginJoin, ClearPending, Resolving,
      Joined, FlushDone, fate, build, call, caller, InFlight, RootOwed
<1>5. ASSUME (\E exit \in Exits : PrepareFails(exit) \/ HashFails(exit)) \/ JoinFails \/ ReentryFails
             \/ AppendFails \/ ObserveFails \/ RootsFail
      PROVE  SC!Next
  <2>1. pc \notin {"open", "closing"} /\ failed' = TRUE /\ alive' = alive
    BY <1>5 DEF PrepareFails, HashFails, BuildFails, JoinFails, ReentryFails, AppendFails,
        ObserveFails, RootsFail, Fails
  <2>2. alive /\ ~failed
    BY <2>1 DEF SchemeInv, Control
  <2> QED BY <2>1, <2>2, FailRefines DEF SC!Next
<1>6. CASE MixOwedRoot
  <2>1. trees = <<1>> /\ deferred = 1 /\ Good /\ Good'
        /\ UNCHANGED <<pc, trees, seen, deferred, alive, failed>>
        /\ transcript' = Append(transcript, Root(trees[1])) /\ pending' = "none"
        /\ pending = "unmixed"
    BY <1>6 DEF MixOwedRoot, Resolving, SchemeInv, OwedRootIsFirst, Control, Good,
        call, caller
  <2>2. ~InFlight /\ RootOwed /\ ~InFlight' /\ ~RootOwed'
    BY <1>6, <2>1 DEF InFlight, RootOwed, SchemeInv, OneWorker
  <2> QED BY <2>1, <2>2 DEF SeqVars, seqStatus, seqTrees, seqSeen, seqTranscript, Good
<1>7. CASE Reenter
  <2>1. Good /\ Good' /\ pc = "reentering" /\ pending = "none" /\ trees = <<>>
        /\ UNCHANGED <<pending, deferred, seen, alive, failed>>
        /\ trees' = Append(trees, deferred)
        /\ transcript' = Append(transcript, Root(deferred))
        /\ pc' \in {"appending", "flushing"}
    BY <1>7 DEF Reenter, SchemeInv, Control, OneWorker, InFlight, Good, caller
  <2>2. InFlight /\ RootOwed /\ ~InFlight' /\ ~RootOwed' /\ trees' = <<deferred>>
    BY <2>1 DEF InFlight, RootOwed
  <2> QED BY <2>1, <2>2 DEF SeqVars, seqStatus, seqTrees, seqSeen, seqTranscript, Good
<1>8. CASE AppendTree
  <2>1. Good /\ Good' /\ pc = "appending" /\ pc' = "open" /\ pending = "none"
        /\ UNCHANGED <<pending, deferred, seen, alive, failed>>
        /\ trees' = Append(trees, cur) /\ transcript' = Append(transcript, Root(cur))
    BY <1>8 DEF AppendTree, SchemeInv, Control, Good, caller, build, fate
  <2>2. ~InFlight /\ ~RootOwed /\ ~InFlight' /\ ~RootOwed'
    BY <2>1 DEF InFlight, RootOwed
  <2>3. cur = Len(trees) + 1 /\ cur <= NumCommits
    BY <2>1, <2>2, <1>0 DEF SchemeInv, InOrder, Committing, TypeOK
  <2>4. seqStatus = "open" /\ UNCHANGED <<seqStatus, seqSeen>> /\ seqTrees = trees
        /\ seqTrees' = trees' /\ seqTranscript = transcript
        /\ seqTranscript' = transcript'
    BY <2>1, <2>2 DEF seqStatus, seqTrees, seqSeen, seqTranscript, Good
  <2>5. SC!Commit
    BY <1>0, <2>1, <2>3, <2>4 DEF SC!Commit, SC!Root, Root
  <2> QED BY <2>5 DEF SC!Next
<1>9. CASE ObserveAppends
  <2>1. Good /\ Good' /\ pc = "observing" /\ pc' = pc /\ pending = "building"
        /\ pending' = "unmixed" /\ trees = <<>>
        /\ UNCHANGED <<deferred, seen, alive, failed, transcript>>
        /\ trees' = Append(trees, deferred)
    BY <1>9 DEF ObserveAppends, Owed, SchemeInv, Control, OneWorker, InFlight, Good,
        caller, call, fate
  <2>2. InFlight /\ RootOwed /\ ~InFlight' /\ RootOwed' /\ trees' = <<deferred>>
    BY <2>1 DEF InFlight, RootOwed
  <2> QED BY <2>1, <2>2 DEF SeqVars, seqStatus, seqTrees, seqSeen, seqTranscript,
              Good, Root
<1>10. CASE Observe
  <2>1. Good /\ Good' /\ pc = "observing" /\ pc' = "open" /\ pending # "building"
        /\ UNCHANGED <<pending, trees, deferred, alive, failed, transcript>>
        /\ seen' = trees
    BY <1>10 DEF Observe, SchemeInv, Control, Good, build, call, fate
  <2>2. ~InFlight /\ ~InFlight' /\ (RootOwed' <=> RootOwed)
    BY <2>1 DEF InFlight, RootOwed
  <2>3. SC!Observe
    BY <2>1, <2>2 DEF SC!Observe, seqStatus, seqTrees, seqSeen, seqTranscript, Good,
        Root
  <2> QED BY <2>3 DEF SC!Next
<1>11. CASE Deinit
  <2>1. alive /\ alive' = FALSE
    BY <1>11 DEF Deinit, SchemeInv, Control
  <2>2. SC!Close
    BY <2>1, <1>0 DEF SC!Close, SC!Finish, seqStatus, seqTrees, seqSeen,
        seqTranscript, Good
  <2> QED BY <2>2 DEF SC!Next
<1>12. ASSUME Work PROVE UNCHANGED SeqVars
  BY <1>12, SilentRefines DEF Work, WorkerPrepares, WorkerPrepareFails, WorkerHashes,
      WorkerHashFails, fate, call, caller, InFlight, RootOwed
<1> QED BY <1>1, <1>2, <1>3, <1>4, <1>5, <1>6, <1>7, <1>8, <1>9, <1>10, <1>11, <1>12
        DEF Next, Call, Build, Resolve, Return

-----------------------------------------------------------------------------
(* Column storage. The storage of a commit is held by its tree, by the     *)
(* build in flight or by the commit under way, whose armed errdefers stand *)
(* for it; else it has been given back, or a build that failed has lost    *)
(* it. What is lost has no holder who could still release it, and while    *)
(* nothing failed, nothing but the worker gave any back.                   *)
Holder(k) ==
  \/ k \in Held
  \/ k = deferred /\ InFlight /\ slot # "err"
  \/ k = cur /\ Committing

Loss ==
  \A k \in lost : /\ freed[k] = 0 /\ ~Holder(k)
                  /\ k = deferred \/ (failed /\ k = cur)

Storage ==
  /\ Committing => armed >= 1 /\ cur \notin Held
  /\ ~Committing => armed = 0
  /\ Held \subseteq 1 .. cur
  /\ \A k \in 1 .. cur : freed[k] >= 1 \/ k \in lost \/ Holder(k)
  /\ Good => \A k \in Commits : k # deferred => freed[k] = 0
  /\ InFlight /\ slot # "err" => freed[deferred] = 0
  /\ Loss
  /\ StorageReturned

(* The commit under way is none that the worker builds.                    *)
LEMMA CommitUnderWay ==
  ASSUME SchemeInv, Committing
  PROVE  Good /\ cur \in Commits /\ cur # deferred
<1>1. Good
  BY DEF SchemeInv, Control, Committing, Good
<1>2. cur = Len(trees) + (IF InFlight THEN 1 ELSE 0) + 1
      /\ (deferred # 0 => InFlight \/ trees # <<>>)
  BY <1>1 DEF SchemeInv, InOrder
<1>3. trees \in Seq(Commits) /\ deferred \in {0, 1} /\ cur \in 0 .. NumCommits
  BY DEF SchemeInv, TypeOK, OneWorker
<1>4. Len(trees) \in Nat /\ (trees # <<>> => Len(trees) >= 1)
  BY <1>3
<1>5. cur >= 1 /\ (deferred # 0 => cur >= 2)
  BY <1>2, <1>3, <1>4
<1> QED BY <1>1, <1>3, <1>5, CommitsAssumption DEF Commits

(* The trees hold one more after an append.                                *)
LEMMA HeldAppend ==
  ASSUME NEW S, trees \in Seq(S), NEW x \in S, trees' = Append(trees, x)
  PROVE  Held' = Held \union {x}
<1>1. Len(trees) \in Nat /\ Len(trees') = Len(trees) + 1
  OBVIOUS
<1>2. /\ \A i \in 1 .. Len(trees) : trees'[i] = trees[i]
      /\ trees'[Len(trees) + 1] = x
  OBVIOUS
<1>3. 1 .. Len(trees') = 1 .. Len(trees) \union {Len(trees) + 1}
  BY <1>1
<1> QED BY <1>2, <1>3 DEF Held

(* Steps that neither move storage nor change who holds it.                *)
LEMMA QuietStorage ==
  ASSUME SchemeInv, Storage,
         UNCHANGED <<freed, lost, trees, cur, deferred, alive, failed>>,
         Committing' <=> Committing,
         Committing' => armed' >= 1, ~Committing' => armed' = 0,
         InFlight' <=> InFlight, InFlight => (slot' = "err" <=> slot = "err")
  PROVE  Storage'
<1>1. Held' = Held
  BY DEF Held
<1>2. \A k : Holder(k)' <=> Holder(k)
  BY <1>1 DEF Holder
<1>3. Loss'
  BY <1>2 DEF Storage, Loss
<1> QED BY <1>1, <1>2, <1>3 DEF Storage, StorageReturned, Good

(* A call that fails runs its armed errdefers.                             *)
LEMMA FailedStorage ==
  ASSUME SchemeInv, SchemeInv', Storage, alive', failed', ~Committing', armed' = 0,
         UNCHANGED <<trees, cur, deferred>>,
         \A k \in Commits : freed'[k] >= freed[k],
         Committing => freed'[cur] >= 1 \/ cur \in lost',
         InFlight' => InFlight /\ slot' = slot /\ freed'[deferred] = freed[deferred],
         InFlight /\ slot # "err" => freed'[deferred] >= 1 \/ InFlight',
         lost \subseteq lost',
         \A k \in lost' : /\ freed'[k] = 0 /\ k \notin Held
                          /\ ~(k = deferred /\ InFlight /\ slot # "err")
                          /\ k \in {deferred, cur}
  PROVE  Storage'
<1>1. Held' = Held
  BY DEF Held
<1>2. \A k \in 1 .. cur : k \in Commits /\ freed[k] \in Nat /\ freed'[k] \in Nat
  BY CommitsAssumption DEF SchemeInv, TypeOK, Commits
<1>3. ASSUME NEW k \in 1 .. cur PROVE freed'[k] >= 1 \/ k \in lost' \/ Holder(k)'
  <2>1. freed[k] >= 1 \/ k \in lost \/ Holder(k) BY <1>3 DEF Storage
  <2>2. CASE freed[k] >= 1 BY <1>2, <2>2
  <2>3. CASE k \in lost BY <2>3
  <2>4. CASE k \in Held BY <1>1, <2>4 DEF Holder
  <2>5. CASE k = deferred /\ InFlight /\ slot # "err" BY <2>5 DEF Holder
  <2>6. CASE k = cur /\ Committing BY <2>6
  <2> QED BY <2>1, <2>2, <2>3, <2>4, <2>5, <2>6 DEF Holder
<1>4. ASSUME NEW k \in lost' PROVE ~Holder(k)'
  BY <1>1, <1>4 DEF Holder
<1>5. Loss'
  BY <1>4 DEF Loss
<1>6. InFlight' /\ slot' # "err" => freed'[deferred'] = 0
  BY DEF Storage
<1>7. StorageReturned'
  BY <1>5 DEF Loss, StorageReturned
<1>8. Held' \subseteq 1 .. cur'
  BY <1>1 DEF Storage
<1> QED BY <1>3, <1>5, <1>6, <1>7, <1>8 DEF Storage, Good

(* Every step keeps Storage.                                               *)
LEMMA StorageSteps ==
  ASSUME SchemeInv, SchemeInv', Storage, Next PROVE Storage'
<1> USE CommitsAssumption
<1>0. /\ trees \in Seq(Commits) /\ freed \in [Commits -> Nat]
      /\ cur \in 0 .. NumCommits /\ armed \in 0 .. 3 /\ lost \subseteq Commits
      /\ freed' \in [Commits -> Nat]
  BY DEF SchemeInv, TypeOK
<1>0a. 1 \in Commits
  BY DEF Commits
<1>1. ASSUME (\E k \in Kinds : CallCommit(k)) \/ CallProve PROVE Storage'
  <2>1. /\ pc = "open" /\ Good /\ Good' /\ cur' = cur + 1 /\ cur' \in Commits
        /\ UNCHANGED <<freed, lost, trees, alive, failed>>
    BY <1>1, <1>0 DEF CallCommit, CallProve, CallerReady, Good, fate, Commits
  <2>2. /\ Held' = Held /\ Held \subseteq 1 .. cur /\ ~Committing /\ armed = 0
    BY <2>1 DEF Held, Storage, Committing
  <2>2a. cur' \notin Held /\ Held' \subseteq 1 .. cur'
    BY <1>0, <2>1, <2>2
  <2>3. \A k \in lost : k = deferred /\ freed[k] = 0 /\ ~Holder(k)
    BY <2>1 DEF Storage, Loss, Good
  <2>4. \/ /\ Spawn /\ cur = 0 /\ deferred' = 1 /\ InFlight' /\ slot' = "empty"
           /\ ~Committing' /\ trees = <<>> /\ armed' = armed
        \/ UNCHANGED <<pending, slot, deferred>> /\ pc' = "preparing" /\ armed' = 1
    <3>1. ASSUME Spawn PROVE cur = 0 /\ trees = <<>>
      BY <2>1, <3>1 DEF Spawn, CanDefer, SchemeInv, InOrder, Committing, InFlight
    <3> QED BY <1>1, <2>1, <3>1
            DEF CallCommit, CallProve, Spawn, BeginBuild, InFlight, Committing, build
  <2>5. CASE Spawn /\ cur = 0 /\ deferred' = 1 /\ InFlight' /\ slot' = "empty"
             /\ ~Committing' /\ armed' = armed
    <3>1. \A k \in 1 .. cur' : k = deferred'
      BY <2>1, <2>5
    <3>2. deferred = 0
      BY <2>5 DEF SchemeInv, OneWorker, TypeOK
    <3>3. lost' = {}
      BY <1>0, <2>1, <2>3, <3>2 DEF Commits
    <3>4. Loss' /\ StorageReturned'
      BY <2>1, <3>3 DEF Loss, StorageReturned, Good
    <3>5. freed'[deferred'] = 0 /\ \A k \in Commits : freed'[k] = 0
      BY <1>0, <2>1, <2>5, <3>2 DEF Storage, Commits
    <3>6. \A k \in 1 .. cur' : Holder(k)'
      BY <2>5, <3>1 DEF Holder
    <3> QED BY <2>2, <2>2a, <2>5, <3>4, <3>5, <3>6 DEF Storage
  <2>6. CASE UNCHANGED <<pending, slot, deferred>> /\ pc' = "preparing" /\ armed' = 1
    <3>1. Committing' /\ (InFlight' <=> InFlight)
      BY <2>1, <2>6 DEF Committing, InFlight
    <3>2. \A k \in 1 .. cur' : k \in 1 .. cur \/ k = cur'
      BY <1>0, <2>1
    <3>3. \A k : Holder(k) => Holder(k)'
      BY <2>2, <2>6, <3>1 DEF Holder
    <3>4. \A k : k = cur' => Holder(k)'
      BY <3>1 DEF Holder
    <3>5. \A k \in 1 .. cur' : freed'[k] >= 1 \/ k \in lost' \/ Holder(k)'
      BY <2>1, <3>2, <3>3, <3>4 DEF Storage
    <3>6. deferred <= cur /\ deferred \in {0, 1}
      BY DEF SchemeInv, OneWorker
    <3>7. \A k \in lost : ~Holder(k)'
      BY <1>0, <2>1, <2>2, <2>3, <2>2a, <2>6, <3>1, <3>6 DEF Holder
    <3>8. Loss' /\ StorageReturned'
      BY <2>1, <2>3, <2>6, <3>7 DEF Loss, StorageReturned, Good
    <3>9. /\ Good' => \A k \in Commits : k # deferred' => freed'[k] = 0
          /\ InFlight' /\ slot' # "err" => freed'[deferred'] = 0
      BY <2>1, <2>6, <3>1 DEF Storage
    <3> QED BY <2>1, <2>2, <2>2a, <2>6, <3>1, <3>5, <3>8, <3>9 DEF Storage
  <2> QED BY <2>4, <2>5, <2>6
<1>2. ASSUME CallerMixes \/ CallFlush \/ CallRoots \/ CallDeinit \/ Observe PROVE Storage'
  <2>1. /\ UNCHANGED <<freed, lost, trees, cur, deferred, alive, failed, pending, slot, armed>>
        /\ pc \in {"open", "observing"}
        /\ pc' \in {"open", "flushing", "observing", "closing"}
    BY <1>2 DEF CallerMixes, CallFlush, CallRoots, CallDeinit, CallerReady, Observe,
                build, call, fate
  <2> QED BY <2>1, QuietStorage DEF Committing, InFlight, Storage
<1>3. ASSUME Prepared \/ Hashed \/ FlushDone PROVE Storage'
  <2>1. /\ UNCHANGED <<freed, lost, trees, cur, deferred, alive, failed, pending, slot>>
        /\ \/ pc \in {"preparing", "hashing"} /\ pc' \in {"hashing", "appending"}
              /\ armed \in 0 .. 3 /\ armed' \in {1, 2, armed, armed + 1}
           \/ pc = "flushing" /\ pc' = "open" /\ armed' = armed
    BY <1>0, <1>3 DEF Prepared, Hashed, FlushDone, build, call, fate
  <2> QED BY <2>1, QuietStorage DEF Committing, InFlight, Storage
<1>4. ASSUME MixOwedRoot \/ BeginJoin \/ Joined PROVE Storage'
  <2>1. /\ UNCHANGED <<freed, lost, trees, cur, deferred, alive, failed, armed, after>>
        /\ \/ pending = "unmixed" /\ pending' = "none" /\ pc' = pc
           \/ pending = "building" /\ pc \in {"appending", "flushing", "reentering"}
              /\ pc' = "joining" /\ slot' = slot
           \/ pc = "joining" /\ pc' = "reentering" /\ slot' = slot
    BY <1>4 DEF MixOwedRoot, BeginJoin, Joined, Resolving, DestroySlot, call, fate
  <2>2. Committing' <=> Committing
    BY <2>1 DEF SchemeInv, Control, OneWorker, Committing
  <2>3. InFlight' <=> InFlight
    BY <2>1 DEF SchemeInv, OneWorker, InFlight
  <2>4. InFlight => slot' = slot
    BY <2>1 DEF SchemeInv, OneWorker, InFlight
  <2> QED BY <2>1, <2>2, <2>3, <2>4, QuietStorage DEF Storage
<1>5. ASSUME NEW exit \in Exits, PrepareFails(exit) \/ HashFails(exit) PROVE Storage'
  <2>1. /\ alive' = alive /\ failed' /\ pc' = "open" /\ pc \in {"preparing", "hashing"}
        /\ armed' = 0 /\ UNCHANGED <<trees, cur, pending, deferred, slot>>
        /\ Dispose(cur, exit, armed)
    BY <1>5 DEF PrepareFails, HashFails, BuildFails, build
  <2>2. Committing /\ ~Committing' /\ alive' /\ (InFlight' <=> InFlight)
    BY <2>1 DEF Committing, InFlight, SchemeInv, Control
  <2>3. Good /\ cur \in Commits /\ cur # deferred
    BY <2>2, CommitUnderWay
  <2>4. /\ freed[cur] = 0 /\ cur \notin Held /\ armed >= 1
        /\ \A k \in lost : freed[k] = 0 /\ k = deferred /\ ~Holder(k)
    BY <2>2, <2>3 DEF Storage, Loss, Good
  <2>5. Released(exit, armed) \in Nat /\ (Released(exit, armed) >= 1 <=> exit # "lost")
    BY <1>0, <2>4 DEF Released
  <2>6. /\ freed'[cur] = Released(exit, armed)
        /\ \A k \in Commits : k # cur => freed'[k] = freed[k]
    BY <1>0, <2>1, <2>3, <2>4, <2>5 DEF Dispose, GiveBack
  <2>7. \A k \in Commits : freed'[k] >= freed[k]
    BY <1>0, <2>4, <2>5, <2>6
  <2>8. lost' = (IF exit = "lost" THEN lost \union {cur} ELSE lost)
    BY <2>1 DEF Dispose
  <2>9. freed'[cur] >= 1 \/ cur \in lost'
    BY <2>5, <2>6, <2>8
  <2>10. InFlight => deferred \in Commits
    BY <1>0a DEF SchemeInv, OneWorker
  <2>11. ASSUME NEW k \in lost'
         PROVE  /\ freed'[k] = 0 /\ k \notin Held
                /\ ~(k = deferred /\ InFlight /\ slot # "err")
                /\ k \in {deferred, cur}
    <3>1. CASE k = cur /\ exit = "lost" BY <2>3, <2>4, <2>6, <3>1 DEF Released
    <3>2. CASE k \in lost BY <1>0, <2>3, <2>4, <2>6, <3>2 DEF Holder
    <3> QED BY <2>8, <2>11, <3>1, <3>2
  <2>12. InFlight' => InFlight /\ slot' = slot /\ freed'[deferred] = freed[deferred]
    BY <2>1, <2>2, <2>3, <2>6, <2>10
  <2>13. lost \subseteq lost'
    BY <2>8
  <2> QED BY <2>1, <2>2, <2>7, <2>9, <2>11, <2>12, <2>13, FailedStorage
<1>6. ASSUME JoinFails \/ ReentryFails \/ AppendFails \/ ObserveFails \/ RootsFail
      PROVE  Storage'
  <2>1. PICK also \in {0, 1} :
          /\ Fails(also) /\ UNCHANGED <<trees, deferred>> /\ alive' = alive
          /\ pc \notin {"open", "closing", "preparing", "hashing"}
          /\ \/ also = 1 /\ InFlight /\ slot # "err" /\ pending' = "none"
             \/ /\ also = 0 /\ UNCHANGED <<pending, slot>>
                /\ pc \notin {"joining", "reentering"}
             \/ also = 0 /\ slot = "err" /\ pending' = "none"
    <3>1. CASE AppendFails \/ RootsFail
      BY <3>1 DEF AppendFails, RootsFail, build
    <3>2. CASE JoinFails
      BY <3>2 DEF JoinFails, SchemeInv, OneWorker
    <3>3. CASE ReentryFails
      BY <3>3 DEF ReentryFails, SchemeInv, OneWorker, InFlight
    <3>4. CASE ObserveFails
      <4>1. slot \in {"tree", "err"}
        BY <3>4 DEF ObserveFails, Joinable, SchemeInv, OneWorker
      <4> QED BY <3>4, <4>1 DEF ObserveFails, InFlight
    <3> QED BY <1>6, <3>1, <3>2, <3>3, <3>4
  <2>2. /\ alive' /\ failed' /\ ~Committing' /\ cur' = cur /\ ~failed
        /\ pc' = "open" /\ armed' = 0 /\ lost' = lost
    BY <2>1 DEF Fails, SchemeInv, Control, Committing
  <2>3. \A k \in Commits : freed'[k] =
          freed[k] + (IF k = cur THEN armed ELSE 0) + (IF k = deferred THEN also ELSE 0)
    BY <1>0, <2>1 DEF Fails
  <2>4. ASSUME NEW k \in Commits PROVE freed'[k] >= freed[k]
    <3>1. freed[k] \in Nat /\ also \in Nat /\ armed \in Nat
      BY <1>0
    <3> QED BY <2>3, <3>1
  <2>5. ASSUME Committing PROVE freed'[cur] >= 1
    <3>1. cur \in Commits /\ armed >= 1
      BY <2>5, CommitUnderWay DEF Storage
    <3> QED BY <1>0, <2>3, <3>1
  <2>6. InFlight => deferred \in Commits
    BY <1>0a DEF SchemeInv, OneWorker
  <2>7. ASSUME InFlight, slot # "err" PROVE freed'[deferred] >= 1 \/ InFlight'
    <3>1. CASE also = 1
      <4>1. freed[deferred] \in Nat /\ armed \in Nat
        BY <1>0, <2>6, <2>7
      <4> QED BY <2>3, <2>6, <2>7, <3>1, <4>1
    <3>2. CASE UNCHANGED <<pending, slot>> /\ pc \notin {"joining", "reentering"}
      BY <2>2, <2>7, <3>2 DEF InFlight
    <3> QED BY <2>1, <2>7, <3>1, <3>2
  <2>8. ASSUME InFlight'
        PROVE  InFlight /\ slot' = slot /\ freed'[deferred] = freed[deferred]
    <3>1. also = 0 /\ UNCHANGED <<pending, slot>> /\ InFlight
      BY <2>1, <2>2, <2>8 DEF InFlight
    <3>2. deferred = cur => armed = 0
      BY CommitUnderWay DEF Storage
    <3>3. freed[deferred] \in Nat
      BY <1>0, <2>6, <3>1
    <3> QED BY <2>3, <2>6, <3>1, <3>2, <3>3
  <2>9. ASSUME NEW k \in lost'
        PROVE  /\ freed'[k] = 0 /\ k \notin Held
               /\ ~(k = deferred /\ InFlight /\ slot # "err")
               /\ k \in {deferred, cur}
    <3>1. k \in Commits /\ freed[k] = 0 /\ ~Holder(k) /\ k = deferred
      BY <1>0, <2>2, <2>9 DEF Storage, Loss
    <3>2. also = 0
      BY <2>1, <3>1 DEF Holder
    <3>3. k = cur => armed = 0
      BY <3>1 DEF Storage, Holder
    <3> QED BY <2>3, <3>1, <3>2, <3>3 DEF Holder
  <2> QED BY <2>1, <2>2, <2>4, <2>5, <2>7, <2>8, <2>9, FailedStorage
<1>7. CASE Reenter \/ ObserveAppends
  <2>1. /\ UNCHANGED <<freed, lost, cur, deferred, alive, failed, armed, after>>
        /\ deferred \in Commits /\ trees' = Append(trees, deferred)
        /\ (Committing' <=> Committing) /\ InFlight /\ ~InFlight' /\ slot = "tree"
        /\ deferred \in 1 .. cur
    BY <1>0, <1>0a, <1>7 DEF Reenter, ObserveAppends, SchemeInv, Control, OneWorker, InFlight,
                Owed, Committing, call, caller, fate
  <2>2. Held' = Held \union {deferred}
    BY <1>0, <2>1, HeldAppend
  <2>3. \A k : Holder(k)' <=> Holder(k)
    BY <2>1, <2>2 DEF Holder
  <2>4. Committing => cur # deferred
    BY CommitUnderWay
  <2>5. Held' \subseteq 1 .. cur' /\ (Committing' => cur' \notin Held')
    BY <2>1, <2>2, <2>4 DEF Storage
  <2>6. Loss' /\ StorageReturned'
    BY <2>1, <2>3 DEF Storage, Loss, StorageReturned
  <2>7. \A k \in 1 .. cur' : freed'[k] >= 1 \/ k \in lost' \/ Holder(k)'
    BY <2>1, <2>3 DEF Storage
  <2> QED BY <2>1, <2>5, <2>6, <2>7 DEF Storage, Good
<1>8. CASE AppendTree
  <2>1. /\ UNCHANGED <<freed, lost, cur, deferred, alive, failed, pending, slot>>
        /\ Committing /\ ~Committing' /\ armed' = 0
        /\ trees' = Append(trees, cur) /\ (InFlight' <=> InFlight)
    BY <1>8 DEF AppendTree, InFlight, Committing, build, caller, fate
  <2>2. cur \in Commits /\ cur \in 1 .. cur
    BY <1>0, <2>1, CommitUnderWay DEF Commits
  <2>3. Held' = Held \union {cur}
    BY <1>0, <2>1, <2>2, HeldAppend
  <2>4. \A k : Holder(k)' <=> Holder(k)
    BY <2>1, <2>3 DEF Holder
  <2>5. Held' \subseteq 1 .. cur'
    BY <2>1, <2>2, <2>3 DEF Storage
  <2>6. Loss' /\ StorageReturned'
    BY <2>1, <2>4 DEF Storage, Loss, StorageReturned
  <2>7. \A k \in 1 .. cur' : freed'[k] >= 1 \/ k \in lost' \/ Holder(k)'
    BY <2>1, <2>4 DEF Storage
  <2> QED BY <2>1, <2>5, <2>6, <2>7 DEF Storage, Good
<1>9. CASE Deinit
  <2>1. /\ alive /\ ~alive' /\ pc = "closing" /\ ~Committing /\ ~Committing'
        /\ UNCHANGED <<cur, deferred, failed, lost, armed>>
        /\ pending = "building" => slot \in {"tree", "err"}
        /\ trees' = <<>> /\ ~InFlight'
    BY <1>9 DEF Deinit, SchemeInv, Control, OneWorker, Committing, MustJoin,
        Joinable, InFlight, call
  <2>2. \A k \in Commits : freed'[k] = freed[k] + (IF k \in Discarded THEN 1 ELSE 0)
                                                + (IF k \in Held THEN 1 ELSE 0)
    BY <1>9, <1>0, OneOrNone DEF Deinit
  <2>3. ASSUME NEW k \in 1 .. cur, k \notin lost PROVE k \in Commits /\ freed'[k] >= 1
    <3>1. k \in Commits /\ (freed[k] >= 1 \/ Holder(k))
      BY <1>0, <2>3 DEF Commits, Storage
    <3>2. k = deferred /\ InFlight /\ slot # "err" => k \in Discarded
      BY <2>1, <3>1 DEF InFlight, Discarded, Discards
    <3> QED BY <1>0, <2>1, <2>2, <3>1, <3>2 DEF Holder
  <2>4. ASSUME NEW k \in 1 .. cur, k \notin lost, ~failed, k # deferred PROVE freed'[k] = 1
    <3>1. k \in Commits /\ k \notin Discarded /\ freed[k] = 0
      BY <2>1, <2>3, <2>4 DEF Discarded, Storage, Good
    <3>2. k \in Held
      BY <2>1, <2>4, <3>1 DEF Storage, Holder
    <3> QED BY <2>2, <3>1, <3>2
  <2>5. Held' = {}
    BY <2>1 DEF Held
  <2>6. ASSUME NEW k \in lost
        PROVE  freed'[k] = 0 /\ ~Holder(k)' /\ (k = deferred \/ (failed /\ k = cur))
    <3>1. k \in Commits /\ freed[k] = 0 /\ ~Holder(k) /\ (k = deferred \/ (failed /\ k = cur))
      BY <1>0, <2>6 DEF Storage, Loss
    <3>2. ASSUME k \in Discarded PROVE FALSE
      <4>1. k = deferred /\ pending \in {"building", "unmixed"} /\ slot = "tree"
        BY <3>2 DEF Discarded, Discards, SchemeInv, TypeOK
      <4>2. CASE pending = "building"
        BY <3>1, <4>1, <4>2 DEF Holder, InFlight
      <4>3. CASE pending = "unmixed"
        <5>1. trees = <<1>> /\ deferred = 1
          BY <4>3 DEF SchemeInv, OwedRootIsFirst
        <5>2. 1 \in Held
          BY <5>1 DEF Held
        <5> QED BY <3>1, <4>1, <5>1, <5>2 DEF Holder
      <4> QED BY <4>1, <4>2, <4>3
    <3>3. freed'[k] = 0
      BY <2>2, <3>1, <3>2 DEF Holder
    <3> QED BY <2>1, <2>5, <3>1, <3>3 DEF Holder
  <2>7. Loss' /\ StorageReturned'
    BY <2>1, <2>3, <2>4, <2>6 DEF Loss, StorageReturned
  <2>8. \A k \in 1 .. cur' : freed'[k] >= 1 \/ k \in lost' \/ Holder(k)'
    BY <2>1, <2>3
  <2> QED BY <2>1, <2>5, <2>7, <2>8 DEF Storage, Good
<1>10. ASSUME WorkerPrepares \/ WorkerHashes PROVE Storage'
  <2>1. UNCHANGED <<pc, after, armed, freed, lost, trees, cur, deferred, alive, failed, pending>>
        /\ slot = "empty" /\ slot' \in {slot, "tree"}
    BY <1>10 DEF WorkerPrepares, WorkerHashes, SchemeInv, OneWorker, call, fate
  <2> QED BY <2>1, QuietStorage DEF Committing, InFlight, Storage
<1>11. ASSUME (\E exit \in Exits : WorkerPrepareFails(exit)) \/ WorkerHashFails PROVE Storage'
  <2>1. PICK exit \in Exits : Dispose(deferred, exit, 1)
    BY <1>11 DEF WorkerPrepareFails, WorkerHashFails, Exits
  <2>2. /\ UNCHANGED <<pc, after, armed, trees, cur, deferred, alive, failed, pending>>
        /\ worker \in {"preparing", "hashing"} /\ slot' = "err"
    BY <1>11 DEF WorkerPrepareFails, WorkerHashFails, call
  <2>3. /\ alive /\ deferred \in Commits /\ trees = <<>> /\ InFlight /\ slot = "empty"
        /\ Held = {} /\ Held' = {}
    BY <1>0a, <2>2 DEF SchemeInv, WorkerReaped, OneWorker, Control, InFlight, Held
  <2>4. freed[deferred] = 0 /\ deferred \notin lost /\ (Committing => cur # deferred)
    BY <2>3, CommitUnderWay DEF Storage, Loss, Holder
  <2>5. Released(exit, 1) \in Nat /\ (Released(exit, 1) >= 1 <=> exit # "lost")
    BY DEF Released
  <2>6. /\ freed'[deferred] = Released(exit, 1)
        /\ \A k \in Commits : k # deferred => freed'[k] = freed[k]
    BY <1>0, <2>1, <2>3, <2>4, <2>5 DEF Dispose, GiveBack
  <2>7. lost' = (IF exit = "lost" THEN lost \union {deferred} ELSE lost)
    BY <2>1 DEF Dispose
  <2>8. Committing' <=> Committing
    BY <2>2 DEF Committing
  <2>9. \A k : Holder(k)' <=> k = cur /\ Committing
    BY <2>2, <2>3, <2>8 DEF Holder
  <2>10. ASSUME NEW k \in 1 .. cur PROVE freed'[k] >= 1 \/ k \in lost' \/ Holder(k)'
    <3>1. k \in Commits /\ (freed[k] >= 1 \/ k \in lost \/ Holder(k))
      BY <1>0, <2>10 DEF Storage, Commits
    <3>2. CASE k = deferred BY <2>5, <2>6, <2>7, <3>2
    <3>3. CASE k # deferred
      <4>1. freed'[k] = freed[k] BY <2>6, <3>1, <3>3
      <4>2. Holder(k) => Holder(k)' BY <2>3, <2>9, <3>3 DEF Holder
      <4> QED BY <2>7, <3>1, <4>1, <4>2
    <3> QED BY <3>2, <3>3
  <2>11. ASSUME NEW k \in lost'
         PROVE  freed'[k] = 0 /\ ~Holder(k)' /\ (k = deferred \/ (failed /\ k = cur))
    <3>1. CASE k = deferred /\ exit = "lost"
      BY <2>4, <2>6, <2>9, <3>1 DEF Released
    <3>2. CASE k \in lost
      <4>1. k \in Commits /\ k # deferred /\ freed[k] = 0 /\ ~Holder(k) /\ failed /\ k = cur
        BY <1>0, <2>4, <3>2 DEF Storage, Loss
      <4> QED BY <2>6, <2>9, <4>1 DEF Holder
    <3> QED BY <2>7, <2>11, <3>1, <3>2
  <2>12. Loss' /\ StorageReturned'
    BY <2>2, <2>3, <2>11 DEF Loss, StorageReturned
  <2>13. Good' => \A k \in Commits : k # deferred' => freed'[k] = 0
    BY <2>2, <2>6 DEF Storage, Good
  <2> QED BY <2>2, <2>3, <2>8, <2>10, <2>12, <2>13 DEF Storage
<1> QED BY <1>1, <1>2, <1>3, <1>4, <1>5, <1>6, <1>7, <1>8, <1>9, <1>10, <1>11
        DEF Next, Call, Build, Resolve, Return, Work

-----------------------------------------------------------------------------
(* The inductive invariant holds in every reachable state.                 *)
THEOREM Invariance == Spec => []SchemeInv
<1>1. Init => SchemeInv
  <2> SUFFICES ASSUME Init PROVE SchemeInv
    OBVIOUS
  <2> USE CommitsAssumption DEF Init
  <2>1. NumberTypes
    BY DEF NumberTypes
  <2>2. StateTypes
    BY DEF StateTypes
  <2>3. Control /\ WorkerReaped /\ OneWorker
    BY DEF Control, WorkerReaped, OneWorker, InFlight
  <2>4. OwedRootIsFirst /\ InOrder
    BY DEF OwedRootIsFirst, InOrder, InFlight, Good, Committing
  <2> QED BY <2>1, <2>2, <2>3, <2>4 DEF SchemeInv, TypeOK, NumberTypes, StateTypes
<1>2. SchemeInv /\ [Next]_vars => SchemeInv'
  <2>1. ASSUME SchemeInv, UNCHANGED vars PROVE SchemeInv'
    <3> USE <2>1 DEF vars, call, build, caller, fate, SchemeInv
    <3>1. TypeOK' BY DEF TypeOK
    <3>2. Control' BY DEF Control
    <3>3. WorkerReaped' BY DEF WorkerReaped
    <3>4. OneWorker' BY DEF OneWorker, InFlight
    <3>5. OwedRootIsFirst'
          /\ InOrder' BY DEF OwedRootIsFirst, InOrder, InFlight, Good, Committing
    <3> QED BY <3>1, <3>2, <3>3, <3>4, <3>5
  <2> QED BY <2>1, Steps
<1> QED BY <1>1, <1>2, PTL DEF Spec

(* Every variable keeps its type (prover/pcs/scheme.zig, deferred_commit). *)
THEOREM TypeCorrect == Spec => []TypeOK
<1>1. SchemeInv => TypeOK BY DEF SchemeInv
<1> QED BY <1>1, Invariance, PTL

(* The worker never outlives the scheme it borrows from.                   *)
THEOREM WorkerStaysWithin == Spec => []WorkerWithinScheme
<1>1. SchemeInv => WorkerWithinScheme
  BY DEF SchemeInv, WorkerWithinScheme, WorkerRuns, OneWorker, WorkerReaped, Control
<1> QED BY <1>1, Invariance, PTL

(* The worker is joined once and its slot destroyed once on every path.    *)
THEOREM WorkerIsReaped == Spec => []WorkerReaped
<1>1. SchemeInv => WorkerReaped BY DEF SchemeInv
<1> QED BY <1>1, Invariance, PTL

(* The owed root is the first tree's, with no tree appended past it.       *)
THEOREM OwedRootFirst == Spec => []OwedRootIsFirst
<1>1. SchemeInv => OwedRootIsFirst BY DEF SchemeInv
<1> QED BY <1>1, Invariance, PTL

(* Deferring the first tree is invisible: whatever the worker and the      *)
(* caller interleave, trees, observed roots and transcript are those of a  *)
(* scheme that commits each tree before its commit call returns.           *)
THEOREM Sequential == Spec => ImplementsSequential
<1>1. Init => SC!Init
  BY DEF Init, SC!Init, seqStatus, seqTrees, seqTranscript, seqSeen, Good, InFlight, RootOwed
<1>2. SchemeInv /\ SchemeInv' /\ [Next]_vars => [SC!Next]_(SC!vars)
  <2>1. ASSUME SchemeInv, SchemeInv', Next PROVE SC!Next \/ UNCHANGED SC!vars
    BY <2>1, Refines DEF SeqVars, SC!vars
  <2>2. ASSUME UNCHANGED vars PROVE UNCHANGED SC!vars
    BY <2>2 DEF vars, call, build, caller, fate, SC!vars, seqStatus, seqTrees,
        seqTranscript,
       seqSeen, Good, InFlight, RootOwed, Root
  <2> QED BY <2>1, <2>2
<1> QED BY <1>1, <1>2, Invariance, PTL DEF Spec, ImplementsSequential, SC!Spec

(* Column storage leaks only where a build fails and loses it: whatever    *)
(* else a commit brought, a scheme that is gone has given back, and once   *)
(* if no call failed; what is lost is never released by anyone, and it is  *)
(* the storage of the worker's commit or of the last one made.             *)
THEOREM OnlyBuildsLose == Spec => []StorageReturned
<1>1. Init => Storage
  BY DEF Init, Storage, StorageReturned, Loss, Held, InFlight, Committing, Good
<1>2. SchemeInv /\ SchemeInv' /\ Storage /\ [Next]_vars => Storage'
  <2>1. ASSUME SchemeInv, Storage, UNCHANGED vars PROVE Storage'
    <3>1. UNCHANGED <<pc, after, armed, freed, lost, trees, cur, deferred, alive, failed,
                      pending, slot>>
      BY <2>1 DEF vars, call, build, caller, fate
    <3> QED BY <2>1, <3>1, QuietStorage DEF Committing, InFlight, Storage
  <2> QED BY <2>1, StorageSteps
<1>3. Storage => StorageReturned BY DEF Storage
<1> QED BY <1>1, <1>2, <1>3, Invariance, PTL DEF Spec

-----------------------------------------------------------------------------
(* Why a call returns: what CallsReturn says, but for fairness.            *)

(* Steps a call has left, if nothing fails: at most these.                 *)
ToResolve == IF pending = "building" THEN 3 ELSE IF pending = "unmixed" THEN 1 ELSE 0
CallRank ==
  CASE pc = "open"                      -> 0
    [] pc = "closing"                   -> 1
    [] pc = "observing"                 -> IF pending = "building" THEN 2 ELSE 1
    [] pc \in {"appending", "flushing"} -> 1 + ToResolve
    [] pc = "reentering"                -> 2
    [] pc = "joining"                   -> 3
    [] pc = "hashing"                   -> 5
    [] pc = "preparing"                 -> 6

WorkRank == IF worker = "preparing" THEN 2 ELSE IF worker = "hashing" THEN 1 ELSE 0

CallsAdvance ==
  [][pc # "open" => \/ CallRank' < CallRank
                    \/ CallRank' = CallRank /\ WorkRank' < WorkRank]_vars

Waiting == pc = "joining" \/ (pc \in {"observing", "closing"} /\ pending = "building")
WaitsForWorker == Waiting => WorkerRuns \/ (Joinable /\ slot \in {"tree", "err"})

RankFacts ==
  /\ pc = "open" => CallRank = 0
  /\ pc = "closing" => CallRank = 1
  /\ pc = "observing" => CallRank = IF pending = "building" THEN 2 ELSE 1
  /\ pc \in {"appending", "flushing"} =>
       /\ pending = "building" => CallRank = 4
       /\ pending = "unmixed" => CallRank = 2
       /\ pending = "none" => CallRank = 1
  /\ pc = "reentering" => CallRank = 2
  /\ pc = "joining" => CallRank = 3
  /\ pc = "hashing" => CallRank = 5
  /\ pc = "preparing" => CallRank = 6

LEMMA RankByPc == RankFacts
  BY DEF RankFacts, CallRank, ToResolve

(* A call that waits for the worker finds one that runs or has ended with  *)
(* its result, and every other step of a call, a failing one too, brings   *)
(* its return nearer: the append that resolve nests meets no build to      *)
(* resolve, as pending_commit is cleared before it                         *)
(* (deferred_commit.zig 112-113).                                          *)
THEOREM CallsComeBack == Spec => CallsAdvance /\ []WaitsForWorker
<1>1. SchemeInv => WaitsForWorker
  <2> SUFFICES ASSUME SchemeInv, Waiting
               PROVE  WorkerRuns \/ (Joinable /\ slot \in {"tree", "err"})
    BY DEF WaitsForWorker
  <2>1. worker \notin {"none", "joined"}
    BY DEF SchemeInv, WorkerReaped, Waiting
  <2>2. worker \in {"preparing", "hashing"} \/ worker = "exited"
    BY <2>1 DEF SchemeInv, TypeOK
  <2> QED BY <2>2 DEF SchemeInv, OneWorker, WorkerRuns, Joinable
<1>2. RankFacts /\ RankFacts'
  BY RankByPc, PTL
<1>3. ASSUME SchemeInv, SchemeInv', Next, pc # "open"
      PROVE  \/ CallRank' < CallRank
             \/ CallRank' = CallRank /\ WorkRank' < WorkRank
  <2>1. /\ pending \in {"none", "building", "unmixed"}
        /\ pc = "reentering" => pending = "none"
        /\ pc \in {"preparing", "hashing", "appending"} => after = "appending"
        /\ pc \in {"joining", "reentering"} => after \in {"appending", "flushing"}
    BY <1>3 DEF SchemeInv, TypeOK, OneWorker, Control
  <2>2. CASE Work
    <3>1. pc' = pc /\ pending' = pending /\ WorkRank' < WorkRank
      BY <2>2 DEF Work, WorkerPrepares, WorkerPrepareFails, WorkerHashes, WorkerHashFails,
                  WorkRank
    <3>2. CallRank' = CallRank
      BY <3>1 DEF CallRank, ToResolve
    <3> QED BY <3>1, <3>2
  <2>3. CASE Build
    <3>1. \/ pc = "preparing" /\ pc' \in {"open", "hashing"}
          \/ pc = "hashing" /\ pc' \in {"open", "appending"}
      BY <2>3 DEF Build, Prepared, Hashed, HashFails, PrepareFails, BuildFails
    <3>2. pending' \in {"none", "building", "unmixed"}
      BY <1>3 DEF SchemeInv, TypeOK
    <3> QED BY <3>1, <3>2, <1>2 DEF RankFacts
  <2>4. CASE Resolve
    <3>1. CASE MixOwedRoot
      <4>1. /\ pc \in {"appending", "flushing"} /\ pc' = pc
            /\ pending = "unmixed" /\ pending' = "none"
        BY <3>1, <2>1 DEF MixOwedRoot, Resolving
      <4> QED BY <4>1, <1>2 DEF RankFacts
    <3>2. CASE BeginJoin
      <4>1. pc \in {"appending", "flushing"} /\ pc' = "joining" /\ pending = "building"
        BY <3>2, <2>1 DEF BeginJoin, Resolving
      <4> QED BY <4>1, <1>2 DEF RankFacts
    <3>3. CASE JoinFails \/ Joined \/ ReentryFails
      <4>1. \/ pc = "joining" /\ pc' \in {"open", "reentering"}
            \/ pc = "reentering" /\ pc' = "open"
        BY <3>3 DEF JoinFails, Joined, ReentryFails, Fails
      <4> QED BY <4>1, <1>2 DEF RankFacts
    <3>4. CASE Reenter
      <4>1. pc = "reentering" /\ pc' \in {"appending", "flushing"} /\ pending' = "none"
        BY <3>4, <2>1 DEF Reenter
      <4> QED BY <4>1, <1>2 DEF RankFacts
    <3> QED BY <2>4, <3>1, <3>2, <3>3, <3>4 DEF Resolve
  <2>5. CASE Return
    <3>1. CASE ObserveAppends
      <4>1. pc = "observing" /\ pc' = pc /\ pending = "building" /\ pending' = "unmixed"
        BY <3>1 DEF ObserveAppends, Owed
      <4> QED BY <4>1, <1>2 DEF RankFacts
    <3>2. CASE AppendTree \/ AppendFails \/ FlushDone \/ ObserveFails \/ Observe \/ RootsFail
               \/ Deinit
      <4>1. pc' = "open" /\ pc \in {"appending", "flushing", "observing", "closing"}
        BY <3>2 DEF AppendTree, AppendFails, FlushDone, ObserveFails, Observe, RootsFail,
                    Deinit, Fails
      <4> QED BY <4>1, <2>1, <1>2 DEF RankFacts
    <3> QED BY <2>5, <3>1, <3>2 DEF Return
  <2>6. ~Call
    BY <1>3 DEF Call, CallCommit, CallProve, CallerMixes, CallFlush, CallRoots, CallDeinit,
                CallerReady
  <2> QED BY <1>3, <2>2, <2>3, <2>4, <2>5, <2>6 DEF Next
<1>4. ASSUME SchemeInv, SchemeInv', [Next]_vars
      PROVE  [pc # "open" => \/ CallRank' < CallRank
                             \/ CallRank' = CallRank /\ WorkRank' < WorkRank]_vars
  BY <1>3, <1>4
<1> QED BY <1>1, <1>4, Invariance, PTL DEF Spec, CallsAdvance

=============================================================================
