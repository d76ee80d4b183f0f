--------------------------- MODULE DeferredCommit ---------------------------
(***************************************************************************)
(* The commitment scheme of the prover (prover/pcs/scheme.zig) and its     *)
(* deferred first tree (prover/pcs/deferred_commit.zig). The first         *)
(* non-constant owned commit hands its columns to a worker thread and      *)
(* returns. The worker is joined, its tree appended and its root mixed     *)
(* into the channel by whatever comes first: a later tree's append, a      *)
(* flush, or (root still owed) an observer. The main thread runs one call  *)
(* at a time; `pc` says how far it is. Only the worker runs beside it.     *)
(*                                                                         *)
(* A tree is the number of its commit. The column storage of a commit (the *)
(* columns it brings and what is made of them) is one resource: `freed`    *)
(* counts how often the whole of it was given back, `armed` how many armed *)
(* errdefers of the running call would give it back. `lost` holds the      *)
(* commits of which an error exit left a part that nobody owns.            *)
(*                                                                         *)
(* An operator whose name begins with Bug is the next definition with a    *)
(* plausible mistake in it (README.md, "Faults").                          *)
(***************************************************************************)
EXTENDS Naturals, Sequences, FiniteSets

CONSTANTS
  NumCommits,     \* trees of a proof, the composition tree included
  Kinds,          \* the commit paths of the backend and its columns
  MaxMixes        \* how often callers mix data into the channel

ASSUME CommitsAssumption ==
  /\ NumCommits \in Nat /\ NumCommits >= 3
  /\ MaxMixes \in Nat
  /\ Kinds \subseteq {"owned", "constant", "streaming", "precommitted", "borrowed"}

VARIABLES
  pc,          \* the main thread
  cur,         \* commit calls made
  kind, armed, \* of the commit under way
  after,       \* where a resolution returns to
  trees,       \* Scheme.trees
  pending,     \* Scheme.pending_commit: "none", "building", "unmixed"
  deferred,    \* the commit the worker builds, 0 before any
  worker,      \* "none", "preparing", "hashing", "exited", "joined"
  slot,        \* Pending.Slot: "absent", "empty", "tree", "err"
  transcript,  \* what the channel absorbed
  flushed,     \* the caller flushed since its last commit
  mixes,       \* data mixed so far
  seen,        \* the roots the last observer was given
  failed,      \* some call returned an error
  alive,       \* the scheme object exists
  freed,       \* history: times the column storage of each commit was given back
  lost,        \* history: the commits part of whose storage nobody owns any more
  destroyed    \* history: times the slot was destroyed

call   == <<cur, kind, armed, after>>
build  == <<pending, deferred, worker, slot>>
caller == <<flushed, mixes, seen>>
fate   == <<failed, alive, freed, lost, destroyed>>
vars == <<pc, call, trees, build, transcript, caller, fate>>

Commits == 1 .. NumCommits
Root(k) == [tag |-> "root", n |-> k]
Data(n) == [tag |-> "data", n |-> n]
Absorbed == [tag : {"root", "data"}, n : Nat]

Init ==
  /\ pc = "open" /\ cur = 0 /\ kind = "owned" /\ armed = 0 /\ after = "open"
  /\ trees = <<>>
  /\ pending = "none" /\ deferred = 0 /\ worker = "none" /\ slot = "absent"
  /\ transcript = <<>>
  /\ flushed = FALSE /\ mixes = 0 /\ seen = <<>>
  /\ failed = FALSE /\ alive = TRUE
  /\ freed = [k \in Commits |-> 0] /\ lost = {} /\ destroyed = 0

-----------------------------------------------------------------------------
(* Helpers.                                                                *)

GiveBack(k, n) == freed' = [freed EXCEPT ![k] = @ + n]

(* A failed build leaves its storage to the n errdefers that are armed; or *)
(* has itself released what they release again (preparation.zig 180, 322,  *)
(* and the two errdefers on one coefficient list, circle_transforms.zig    *)
(* 176 and 182, commit_polys.zig 45 and 49); or has taken part of it from  *)
(* where they would look for it, or fails before one is armed, and that    *)
(* part is lost.                                                           *)
Exits == {"clean", "twice", "lost"}
Released(exit, n) == IF exit = "lost" THEN 0 ELSE IF exit = "twice" THEN n + 1 ELSE n
Dispose(k, exit, n) ==
  /\ GiveBack(k, Released(exit, n))
  /\ lost' = IF exit = "lost" THEN lost \union {k} ELSE lost

(* The running call returns an error: its armed errdefers run, and the     *)
(* `also` releases of the tree a resolution was holding.                   *)
Fails(also) ==
  /\ pc' = "open" /\ failed' = TRUE /\ armed' = 0
  /\ freed' = [k \in Commits |->
       freed[k] + (IF k = cur THEN armed ELSE 0) + (IF k = deferred THEN also ELSE 0)]
  /\ UNCHANGED <<cur, kind, after, lost>>

DestroySlot == slot' = "absent" /\ destroyed' = destroyed + 1

(* canDeferFirstTree.                                                      *)
CanDefer == pending = "none" /\ trees = <<>>

(* The caller may call the scheme: it stops at the first error.            *)
CallerReady == pc = "open" /\ alive /\ ~failed

(* The worker has ended; std.Thread.join returns only then.                *)
Joinable == worker = "exited"

-----------------------------------------------------------------------------
(* The caller.                                                             *)

(* trySpawn succeeds: the commit returns with its tree still to be built.  *)
Spawn ==
  /\ CanDefer
  /\ pending' = "building" /\ deferred' = cur + 1
  /\ worker' = "preparing" /\ slot' = "empty"
  /\ UNCHANGED <<pc, kind, armed, after>>

(* Any other commit, and an owned one whose slot allocation or thread      *)
(* spawn fails.                                                            *)
BeginBuild(k) ==
  /\ pc' = "preparing" /\ kind' = k /\ armed' = 1 /\ after' = "appending"
  /\ UNCHANGED build

(* commitOwnedPreparedWithRecorderAndBacking, commit and the tree builders. *)
CallCommit(k) ==
  /\ CallerReady /\ cur < NumCommits - 1
  /\ (k = "owned" /\ Spawn) \/ BeginBuild(k)
  /\ cur' = cur + 1 /\ flushed' = FALSE
  /\ UNCHANGED <<trees, transcript, mixes, seen, fate>>

(* The prover takes the scheme over, draws from the channel (a draw counts *)
(* as data) and commits the composition polynomials (commitPolys).         *)
CallProve ==
  /\ CallerReady /\ cur = NumCommits - 1
  /\ BeginBuild("borrowed")
  /\ transcript' = Append(transcript, Data(mixes))
  /\ cur' = cur + 1 /\ flushed' = FALSE
  /\ UNCHANGED <<trees, mixes, seen, fate>>

BugMayMix == TRUE
(* Callers mix data only where no first root can be owed: before the first *)
(* commit, after a flush, and after the second commit.                     *)
MayMix == cur # 1 \/ flushed

CallerMixes ==
  /\ CallerReady /\ MayMix /\ mixes < MaxMixes
  /\ transcript' = Append(transcript, Data(mixes))
  /\ mixes' = mixes + 1
  /\ UNCHANGED <<pc, call, trees, build, flushed, seen, fate>>

CallFlush ==
  /\ CallerReady /\ cur > 0 /\ ~flushed
  /\ pc' = "flushing" /\ after' = "flushing"
  /\ UNCHANGED <<cur, kind, armed, trees, build, transcript, caller, fate>>

CallRoots ==
  /\ CallerReady /\ cur > 0
  /\ pc' = "observing"
  /\ UNCHANGED <<call, trees, build, transcript, caller, fate>>

(* Scheme.deinit, by a caller that is done or by its errdefer.             *)
CallDeinit ==
  /\ pc = "open" /\ alive
  /\ pc' = "closing"
  /\ UNCHANGED <<call, trees, build, transcript, caller, fate>>

(* The one caller of which that is not so: an error leaves the function    *)
(* that holds the scheme, where no errdefer calls Scheme.deinit            *)
(* (frontends/cairo/prove_trace.zig). Kept apart from Call.                *)
Abandon ==
  /\ pc = "open" /\ alive /\ cur > 0
  /\ alive' = FALSE
  /\ UNCHANGED <<pc, call, trees, build, transcript, caller, failed, freed, lost, destroyed>>

-----------------------------------------------------------------------------
(* The build of a tree on the main thread.                                 *)

BuildFails(exit) ==
  /\ pc' = "open" /\ failed' = TRUE /\ armed' = 0
  /\ Dispose(cur, exit, armed)
  /\ UNCHANGED <<cur, kind, after, trees, build, transcript, caller, alive, destroyed>>

(* Column preparation fails. Lost are the columns of a streaming commit    *)
(* that cannot allocate its order (scheme.zig 432, tree_builders.zig 199), *)
(* a column whose values have become a coefficient that is not noted as    *)
(* initialized (circle_transforms.zig 276-278, preparation.zig 312-317),   *)
(* and a buffer that is not noted either (preparation.zig 256-260, 277).   *)
PrepareFails(exit) ==
  /\ pc = "preparing"
  /\ exit # "clean" => kind \notin {"constant", "precommitted"}
  /\ BuildFails(exit)

(* The prepared columns get an errdefer of their own; on the owned paths   *)
(* the one on the input stays armed.                                       *)
Prepared ==
  /\ pc = "preparing"
  /\ pc' = "hashing"
  /\ armed' = IF kind \in {"owned", "constant"} THEN 2 ELSE 1
  /\ UNCHANGED <<cur, kind, after, trees, build, transcript, caller, fate>>

(* commitPolys has no errdefer on the coefficients it retains once they    *)
(* are complete (commit_polys.zig 57-64).                                  *)
HashFails(exit) ==
  /\ pc = "hashing"
  /\ exit # "clean" => exit = "lost" /\ kind = "borrowed"
  /\ BuildFails(exit)

(* So does the tree; streaming and precommitted trees replace theirs.      *)
Hashed ==
  /\ pc = "hashing"
  /\ pc' = "appending"
  /\ armed' = IF kind \in {"owned", "constant", "borrowed"} THEN armed + 1 ELSE armed
  /\ UNCHANGED <<cur, kind, after, trees, build, transcript, caller, fate>>

-----------------------------------------------------------------------------
(* deferred_commit.resolve: at the start of every append, the nested one   *)
(* included, and in a flush. pending_commit is cleared first.              *)

Resolving == pc \in {"appending", "flushing", "reentering"}

(* An observer appended the tree: only its root is owed.                   *)
MixOwedRoot ==
  /\ Resolving /\ pending = "unmixed"
  /\ pending' = "none"
  /\ transcript' = Append(transcript, Root(trees[1]))
  /\ DestroySlot
  /\ UNCHANGED <<pc, call, trees, deferred, worker, caller, failed, alive, freed, lost>>

BugClearPending == pending' = pending
ClearPending == pending' = "none"

BeginJoin ==
  /\ Resolving /\ pending = "building"
  /\ ClearPending
  /\ pc' = "joining"
  /\ UNCHANGED <<call, trees, deferred, worker, slot, transcript, caller, fate>>

(* The join returns and the worker left an error.                          *)
JoinFails ==
  /\ pc = "joining" /\ Joinable /\ slot = "err"
  /\ worker' = "joined"
  /\ DestroySlot
  /\ Fails(0)
  /\ UNCHANGED <<trees, pending, deferred, transcript, caller, alive>>

(* The join returns and appendCommittedTree is entered for the first tree. *)
Joined ==
  /\ pc = "joining" /\ Joinable /\ slot = "tree"
  /\ worker' = "joined"
  /\ pc' = "reentering"
  /\ UNCHANGED <<call, trees, pending, deferred, slot, transcript, caller, fate>>

(* ... where the append of the first tree may be out of memory.            *)
ReentryFails ==
  /\ pc = "reentering" /\ pending = "none"
  /\ DestroySlot
  /\ Fails(1)
  /\ UNCHANGED <<trees, pending, deferred, worker, transcript, caller, alive>>

Reenter ==
  /\ pc = "reentering" /\ pending = "none"
  /\ trees' = Append(trees, deferred)
  /\ transcript' = Append(transcript, Root(deferred))
  /\ DestroySlot
  /\ pc' = after
  /\ UNCHANGED <<call, pending, deferred, worker, caller, failed, alive, freed, lost>>

(* appendCommittedTree, with nothing left to resolve.                      *)
AppendTree ==
  /\ pc = "appending" /\ pending = "none"
  /\ trees' = Append(trees, cur)
  /\ transcript' = Append(transcript, Root(cur))
  /\ pc' = "open" /\ armed' = 0
  /\ UNCHANGED <<cur, kind, after, build, caller, fate>>

AppendFails ==
  /\ pc = "appending" /\ pending = "none"
  /\ Fails(0)
  /\ UNCHANGED <<trees, build, transcript, caller, alive, destroyed>>

FlushDone ==
  /\ pc = "flushing" /\ pending = "none"
  /\ pc' = "open" /\ flushed' = TRUE
  /\ UNCHANGED <<call, trees, build, transcript, mixes, seen, fate>>

-----------------------------------------------------------------------------
(* resolveObserved, then roots.                                            *)

ObserveFails ==
  /\ pc = "observing" /\ pending = "building" /\ Joinable
  /\ worker' = "joined" /\ pending' = "none"
  /\ Fails(IF slot = "tree" THEN 1 ELSE 0)
  /\ DestroySlot
  /\ UNCHANGED <<trees, deferred, transcript, caller, alive>>

BugOwed == pending' = "none"
(* The root of the appended tree stays owed to the channel.                *)
Owed == pending' = "unmixed"

ObserveAppends ==
  /\ pc = "observing" /\ pending = "building" /\ Joinable /\ slot = "tree"
  /\ worker' = "joined" /\ slot' = "empty"
  /\ trees' = Append(trees, deferred)
  /\ Owed
  /\ UNCHANGED <<pc, call, deferred, transcript, caller, fate>>

Observe ==
  /\ pc = "observing" /\ pending # "building"
  /\ seen' = trees
  /\ pc' = "open"
  /\ UNCHANGED <<call, trees, build, transcript, flushed, mixes, fate>>

(* The copy of the roots is out of memory.                                 *)
RootsFail ==
  /\ pc = "observing" /\ pending # "building"
  /\ Fails(0)
  /\ UNCHANGED <<trees, build, transcript, caller, alive, destroyed>>

-----------------------------------------------------------------------------
(* deinit: discard, then the trees.                                        *)

BugMustJoin == FALSE
MustJoin == pending = "building"

BugDiscards == deferred # 0
Discards == pending # "none"

BugDiscarded == {}
(* The commits whose storage discard and the loop over the trees release.  *)
Discarded == {k \in Commits : k = deferred /\ Discards /\ slot = "tree"}
Held == {trees[i] : i \in 1 .. Len(trees)}

Deinit ==
  /\ pc = "closing"
  /\ MustJoin => Joinable
  /\ worker' = IF MustJoin THEN "joined" ELSE worker
  /\ freed' = [k \in Commits |-> freed[k] + Cardinality({k} \cap Discarded)
                                          + Cardinality({k} \cap Held)]
  /\ IF Discards THEN DestroySlot ELSE UNCHANGED <<slot, destroyed>>
  /\ pending' = "none" /\ trees' = <<>>
  /\ alive' = FALSE /\ pc' = "open"
  /\ UNCHANGED <<call, deferred, transcript, caller, failed, lost>>

-----------------------------------------------------------------------------
(* The worker. Only its preparation uses the scheme (config, retention     *)
(* policy, twiddle source).                                                *)

WorkerPrepares ==
  /\ worker = "preparing"
  /\ worker' = "hashing"
  /\ UNCHANGED <<pc, call, trees, pending, deferred, slot, transcript, caller, fate>>

WorkerPrepareFails(exit) ==
  /\ worker = "preparing"
  /\ worker' = "exited" /\ slot' = "err"
  /\ Dispose(deferred, exit, 1)
  /\ UNCHANGED <<pc, call, trees, pending, deferred, transcript, caller, failed, alive, destroyed>>

WorkerHashFails ==
  /\ worker = "hashing"
  /\ worker' = "exited" /\ slot' = "err"
  /\ Dispose(deferred, "clean", 1)
  /\ UNCHANGED <<pc, call, trees, pending, deferred, transcript, caller, failed, alive, destroyed>>

WorkerHashes ==
  /\ worker = "hashing"
  /\ worker' = "exited" /\ slot' = "tree"
  /\ UNCHANGED <<pc, call, trees, pending, deferred, transcript, caller, fate>>

-----------------------------------------------------------------------------
Call ==
  \/ \E k \in Kinds : CallCommit(k)
  \/ CallProve \/ CallerMixes \/ CallFlush \/ CallRoots \/ CallDeinit

Build == Prepared \/ Hashed \/ \E exit \in Exits : PrepareFails(exit) \/ HashFails(exit)

Resolve == MixOwedRoot \/ BeginJoin \/ JoinFails \/ Joined \/ ReentryFails \/ Reenter

Return == AppendTree \/ AppendFails \/ FlushDone \/ ObserveFails \/ ObserveAppends
          \/ Observe \/ RootsFail \/ Deinit

Work == WorkerPrepares \/ WorkerHashFails \/ WorkerHashes
        \/ \E exit \in Exits : WorkerPrepareFails(exit)

Next == Call \/ Build \/ Resolve \/ Return \/ Work

Spec == Init /\ [][Next]_vars

(* With the caller that drops the scheme.                                  *)
AbandoningSpec == Init /\ [][Next \/ Abandon]_vars

(* Both threads are scheduled; no caller is obliged to call.               *)
FairSpec == Spec /\ WF_vars(Build \/ Resolve \/ Return) /\ WF_vars(Work)

-----------------------------------------------------------------------------
(* Properties.                                                             *)

(* Every variable has its type; the slot is destroyed at most once.        *)
TypeOK ==
  /\ pc \in {"open", "preparing", "hashing", "appending", "flushing", "joining",
             "reentering", "observing", "closing"}
  /\ cur \in 0 .. NumCommits /\ kind \in Kinds \union {"owned", "borrowed"}
  /\ armed \in 0 .. 3 /\ after \in {"open", "appending", "flushing"}
  /\ trees \in Seq(Commits)
  /\ pending \in {"none", "building", "unmixed"}
  /\ deferred \in 0 .. NumCommits
  /\ worker \in {"none", "preparing", "hashing", "exited", "joined"}
  /\ slot \in {"absent", "empty", "tree", "err"}
  /\ transcript \in Seq(Absorbed)
  /\ flushed \in BOOLEAN /\ mixes \in 0 .. MaxMixes /\ seen \in Seq(Commits)
  /\ failed \in BOOLEAN /\ alive \in BOOLEAN
  /\ freed \in [Commits -> Nat] /\ lost \subseteq Commits /\ destroyed \in 0 .. 1

WorkerRuns == worker \in {"preparing", "hashing"}

(* The worker borrows the scheme's config and twiddle source by pointer:   *)
(* whichever way the scheme ends, it ends after the worker has. "`discard` *)
(* drains an unresolved build on abort" (deferred_commit.zig 16-17).       *)
WorkerWithinScheme == WorkerRuns => alive

(* Exactly one call joins the worker, and the slot is its mailbox: the     *)
(* worker owns it until the join, then resolve, resolveObserved or discard *)
(* destroys it, once, whatever fails in between (deferred_commit.zig       *)
(* 116-167, 210-216).                                                      *)
WorkerReaped ==
  /\ destroyed = IF deferred # 0 /\ slot = "absent" THEN 1 ELSE 0
  /\ worker \notin {"none", "joined"} <=> pending = "building" \/ pc = "joining"
  /\ slot # "absent" <=> pending # "none" \/ pc \in {"joining", "reentering"}

(* The root that is still owed is the first tree's, no other tree was      *)
(* appended past it and nothing was mixed after its commit: this is what   *)
(* lets `resolve` mix trees.items[0] (deferred_commit.zig 31-35, 119-122). *)
OwedRootIsFirst ==
  /\ pending = "unmixed" => trees = <<1>>
  /\ pending # "none" => deferred = 1 /\ cur \in {1, 2}

(* Once the scheme is gone, each committed column set has been given back, *)
(* and exactly once if no call failed (the worker may have failed with     *)
(* nobody left to tell): resolution, observation, discard, the append and  *)
(* deinit lose nothing on any path. What a build that fails has lost is    *)
(* the exception, it stays lost, and no other storage shares its fate:     *)
(* the first error ends the calls, so at most the worker's and one more.   *)
StorageReturned ==
  /\ ~alive => \A k \in (1 .. cur) \ lost :
                 /\ freed[k] >= 1
                 /\ ~failed => freed[k] = 1 \/ k = deferred
  /\ \A k \in lost : freed[k] = 0 /\ (k = deferred \/ (failed /\ k = cur))

(* "On failure, owned columns are fully deinitialized." (scheme.zig 146):  *)
(* a commit that fails before or while it prepares gives its columns back. *)
FailureDeinitializes == ~alive => \A k \in 1 .. cur : freed[k] >= 1

(* "on error from prepareColumnsForCommitOwned the caller cleans up the    *)
(* input; on success the result owns the data" (tree_builders.zig          *)
(* 224-226): storage has one owner at a time, and is given back once.      *)
GivenBackOnce == \A k \in Commits : freed[k] <= 1

(* Every call on the scheme returns: joins wait only for a worker that     *)
(* ends, and the nested append does not resolve the same build again       *)
(* ("Clears the pending slot first, so the recursion terminates",          *)
(* deferred_commit.zig 112-113).                                           *)
CallsReturn == pc # "open" ~> pc = "open"

-----------------------------------------------------------------------------
(* The scheme implements SequentialCommit: a first tree in flight counts   *)
(* as committed, its root as mixed.                                        *)
InFlight == pending = "building" \/ pc \in {"joining", "reentering"}
RootOwed == InFlight \/ pending = "unmixed"
Good == alive /\ ~failed

seqStatus == IF ~alive THEN "closed" ELSE IF failed THEN "failed" ELSE "open"
seqTrees == IF ~Good THEN <<>> ELSE IF InFlight THEN <<deferred>> ELSE trees
seqTranscript ==
  IF ~Good THEN <<>>
  ELSE IF RootOwed THEN Append(transcript, Root(deferred)) ELSE transcript
seqSeen == IF Good THEN seen ELSE <<>>

SC == INSTANCE SequentialCommit WITH
        Commits    <- NumCommits,
        Payloads   <- 0 .. MaxMixes,
        status     <- seqStatus,
        trees      <- seqTrees,
        transcript <- seqTranscript,
        seen       <- seqSeen

(* "Proof bytes are identical to the sequential path by construction"      *)
(* (deferred_commit.zig 8-9): callers and channel cannot tell the deferred *)
(* scheme from one that commits every tree at once.                        *)
ImplementsSequential == SC!Spec
=============================================================================
