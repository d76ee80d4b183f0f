---------------------------- MODULE SharedRuntime ----------------------------
(***************************************************************************)
(* The process-wide Metal runtime (backends/metal/shared_runtime.zig).     *)
(* Threads use it under call leases, which are shared holds of a           *)
(* readers-writer lock. Buffers and trees on the device outlive the lease  *)
(* they were made under and are counted instead; they are destroyed later  *)
(* by whoever owns them, without a lease. Shutdown needs the lock at once  *)
(* and the count at zero; the next caller builds a new runtime.            *)
(*                                                                         *)
(* The lock is std.Thread.RwLock, the operating system's on this platform: *)
(* whether a waiting writer holds new readers off is left open here.       *)
(***************************************************************************)
EXTENDS Naturals, FiniteSets

CONSTANTS
  Threads,
  Buffers,      \* resident columns and lines (commit_backend.zig)
  Trees,        \* trees of hashes (merkle_tree.zig)
  Arenas,       \* lookup storage of the Cairo prover (resident_lookup.zig)
  NoOne,
  MaxRuntimes   \* runtimes built in the life of the process

ASSUME RuntimesAssumption ==
  /\ IsFiniteSet(Threads) /\ NoOne \notin Threads
  /\ IsFiniteSet(Buffers \union Trees) /\ Buffers \intersect Trees = {}
  /\ Arenas \intersect (Buffers \union Trees) = {}
  /\ MaxRuntimes \in Nat \ {0}

VARIABLES
  writer, readers, \* runtime_lock: its exclusive hold, its shared holds
  live,            \* shared_runtime is not null
  built,           \* history: runtimes built; the live one is the last
  origin,          \* shared_identity.origin: "jit" or "aot"
  inits, downs,    \* runtime_initializations, runtime_shutdowns
  leases,          \* active_call_leases
  residents,       \* live_resident_resources
  pc, call,        \* of each thread: where it is, in which call
  objs             \* of each object: its state, runtime and maker

lock    == <<writer, readers>>
runtime == <<live, built, origin>>
counts  == <<inits, downs, leases, residents>>
vars == <<lock, runtime, counts, pc, call, objs>>

Objects == Buffers \union Trees \union Arenas
Tracked(o) == o \notin Arenas
Nothing == [st |-> "none", of |-> 0, by |-> NoOne]
Sharing == {"acquire", "existing", "snapshot"}
Policies == {"jit", "aot"}

Init ==
  /\ writer = NoOne /\ readers = {}
  /\ live = FALSE /\ built = 0 /\ origin = "jit"
  /\ inits = 0 /\ downs = 0 /\ leases = 0 /\ residents = 0
  /\ pc = [t \in Threads |-> "idle"] /\ call = [t \in Threads |-> "none"]
  /\ objs = [o \in Objects |-> Nothing]

Begin(t, c, l) == call' = [call EXCEPT ![t] = c] /\ pc' = [pc EXCEPT ![t] = l]
(* A call that returns is forgotten.                                       *)
Goto(t, l) == Begin(t, IF l \in {"idle", "leased"} THEN "none" ELSE call[t], l)
Unlock == writer' = NoOne

-----------------------------------------------------------------------------
(* Calls.                                                                  *)

(* acquire, acquireExisting and lifecycleSnapshot start with lockShared,   *)
(* initialize (of either policy) with lock.                                *)
Start(t, c) ==
  /\ pc[t] = "idle"
  /\ Begin(t, c, IF c \in Sharing THEN "sharing" ELSE "upgrading")
  /\ UNCHANGED <<lock, runtime, counts, objs>>

(* What lock and tryLock wait for, or ask for.                             *)
Free == writer = NoOne /\ readers = {}

(* shutdown: tryLock, or RuntimeBusy.                                      *)
TryShutdown(t) ==
  /\ pc[t] = "idle" /\ Free
  /\ writer' = t /\ Begin(t, "none", "closing")
  /\ UNCHANGED <<readers, runtime, counts, objs>>

(* lockShared is granted and the runtime is there.                         *)
Lease(t) ==
  /\ pc[t] = "sharing" /\ writer = NoOne /\ live /\ call[t] # "snapshot"
  /\ readers' = readers \union {t} /\ leases' = leases + 1
  /\ Goto(t, "leased")
  /\ UNCHANGED <<writer, runtime, inits, downs, residents, objs>>

(* It is not: acquire lets go and comes back for the exclusive lock, to    *)
(* build one; acquireExisting returns an error.                            *)
Miss(t) ==
  /\ pc[t] = "sharing" /\ writer = NoOne /\ ~live /\ call[t] # "snapshot"
  /\ Goto(t, IF call[t] = "acquire" THEN "upgrading" ELSE "idle")
  /\ UNCHANGED <<lock, runtime, counts, objs>>

(* lifecycleSnapshot reads one counter after the other.                    *)
Snapshot(t) ==
  /\ pc[t] = "sharing" /\ writer = NoOne /\ call[t] = "snapshot"
  /\ readers' = readers \union {t}
  /\ Goto(t, "reading")
  /\ UNCHANGED <<writer, runtime, counts, objs>>

SnapshotEnds(t) ==
  /\ pc[t] = "reading"
  /\ readers' = readers \ {t}
  /\ Goto(t, "idle")
  /\ UNCHANGED <<writer, runtime, counts, objs>>

(* CallLease.deinit.                                                       *)
EndLease(t) ==
  /\ pc[t] = "leased"
  /\ leases' = leases - 1 /\ readers' = readers \ {t}
  /\ Goto(t, "idle")
  /\ UNCHANGED <<writer, runtime, inits, downs, residents, objs>>

-----------------------------------------------------------------------------
(* Under the exclusive lock.                                               *)

Enter(t) ==
  /\ pc[t] = "upgrading" /\ Free
  /\ writer' = t /\ Goto(t, "inside")
  /\ UNCHANGED <<readers, runtime, counts, objs>>

BugMustBuild(t) == call[t] = "acquire" \/ ~live
(* The runtime is looked up again: another caller may have built it since. *)
MustBuild(t) == ~live

(* It is there: acquire starts over, initialize returns or reports the     *)
(* conflict of policies.                                                   *)
AlreadyBuilt(t) ==
  /\ pc[t] = "inside" /\ ~MustBuild(t)
  /\ Unlock
  /\ Goto(t, IF call[t] = "acquire" THEN "sharing" ELSE "idle")
  /\ UNCHANGED <<readers, runtime, counts, objs>>

Build(t) ==
  /\ pc[t] = "inside" /\ MustBuild(t) /\ built < MaxRuntimes
  /\ live' = TRUE /\ built' = built + 1
  /\ origin' = IF call[t] = "aot" THEN "aot" ELSE "jit"
  /\ Goto(t, "counting")
  /\ UNCHANGED <<lock, counts, objs>>

(* No device, no bundle, a digest that does not match.                     *)
BuildFails(t) ==
  /\ pc[t] = "inside" /\ MustBuild(t)
  /\ Unlock /\ Goto(t, "idle")
  /\ UNCHANGED <<readers, runtime, counts, objs>>

Counted == inits + 1

Count(t) ==
  /\ pc[t] = "counting"
  /\ inits' = Counted
  /\ Unlock
  /\ Goto(t, IF call[t] = "acquire" THEN "sharing" ELSE "idle")
  /\ UNCHANGED <<readers, runtime, downs, leases, residents, objs>>

BugReopen == UNCHANGED writer
(* The deferred unlock, on the error path too.                             *)
Reopen == Unlock

(* ResidentResourcesLive.                                                  *)
ShutdownRefused(t) ==
  /\ pc[t] = "closing" /\ residents # 0
  /\ Reopen /\ Goto(t, "idle")
  /\ UNCHANGED <<readers, runtime, counts, objs>>

Shutdown(t) ==
  /\ pc[t] = "closing" /\ residents = 0
  /\ live' = FALSE /\ downs' = IF live THEN downs + 1 ELSE downs
  /\ Unlock /\ Goto(t, "idle")
  /\ UNCHANGED <<readers, built, origin, inits, leases, residents, objs>>

-----------------------------------------------------------------------------
(* Objects on the device, each made under a lease.                         *)

Becomes(o, st) ==
  objs' = [objs EXCEPT ![o] = IF st = "none" THEN Nothing ELSE [@ EXCEPT !.st = st]]
Making(t, o, st) == pc[t] = "making" /\ objs[o].st = st /\ objs[o].by = t

Make(t, o) ==
  /\ pc[t] = "leased" /\ objs[o].st = "none"
  /\ objs' = [objs EXCEPT ![o] = [st |-> "made", of |-> built, by |-> t]]
  /\ Goto(t, "making")
  /\ UNCHANGED <<lock, runtime, counts>>

(* The root of the tree cannot be read, or there is no memory to keep the  *)
(* arena in: it is destroyed before anything counted it.                   *)
MakeFails(t, o) ==
  /\ Making(t, o, "made") /\ o \notin Buffers
  /\ Becomes(o, "none") /\ Goto(t, "leased")
  /\ UNCHANGED <<lock, runtime, counts>>

BugRetained == residents
Retained == residents + 1

Retain(t, o) ==
  /\ Making(t, o, "made") /\ Tracked(o)
  /\ residents' = Retained
  /\ Becomes(o, "retained")
  /\ UNCHANGED <<lock, runtime, inits, downs, leases, pc, call>>

(* The object is handed to its owner. Arenas are not counted.              *)
HandOver(t, o) ==
  /\ Making(t, o, IF Tracked(o) THEN "retained" ELSE "made")
  /\ Becomes(o, "kept") /\ Goto(t, "leased")
  /\ UNCHANGED <<lock, runtime, counts>>

(* initResident fails: the errdefers release the count, then the buffer,   *)
(* both still under the lease.                                             *)
Uncount(t, o) ==
  /\ Making(t, o, "retained") /\ o \in Buffers
  /\ residents' = residents - 1
  /\ Becomes(o, "uncounted")
  /\ UNCHANGED <<lock, runtime, inits, downs, leases, pc, call>>

Discard(t, o) ==
  /\ Making(t, o, "uncounted")
  /\ Becomes(o, "none") /\ Goto(t, "leased")
  /\ UNCHANGED <<lock, runtime, counts>>

BugDisposal(o) == "none"
(* Where destroying an object leaves it: its count, if any, is still held. *)
Disposal(o) == IF Tracked(o) THEN "destroyed" ELSE "none"

(* destroyResidentBuffer, MetalMerkleTree.deinit and Storage.deinit, by    *)
(* the owner and without a lease: the object ...                           *)
Destroy(o) ==
  /\ objs[o].st = "kept"
  /\ Becomes(o, Disposal(o))
  /\ UNCHANGED <<lock, runtime, counts, pc, call>>

(* ... then its count.                                                     *)
Release(o) ==
  /\ objs[o].st = "destroyed"
  /\ residents' = residents - 1
  /\ Becomes(o, "none")
  /\ UNCHANGED <<lock, runtime, inits, downs, leases, pc, call>>

-----------------------------------------------------------------------------
Proceed(t) ==
  \/ SnapshotEnds(t) \/ AlreadyBuilt(t) \/ Build(t) \/ BuildFails(t) \/ Count(t)
  \/ ShutdownRefused(t) \/ Shutdown(t)
  \/ \E o \in Objects :
       MakeFails(t, o) \/ Retain(t, o) \/ HandOver(t, o) \/ Uncount(t, o) \/ Discard(t, o)

TakeLock(t) == Lease(t) \/ Miss(t) \/ Snapshot(t) \/ Enter(t)

Next ==
  \/ \E t \in Threads :
       \/ \E c \in Sharing \union Policies : Start(t, c)
       \/ TryShutdown(t) \/ TakeLock(t) \/ Proceed(t) \/ EndLease(t)
       \/ \E o \in Objects : Make(t, o)
  \/ \E o \in Objects : Destroy(o) \/ Release(o)

Spec == Init /\ [][Next]_vars

(* Threads run and end their leases; a hold of the lock that can be had    *)
(* again and again is had in the end. Nobody has to call.                  *)
FairSpec ==
  /\ Spec
  /\ \A t \in Threads : WF_vars(Proceed(t)) /\ WF_vars(EndLease(t)) /\ SF_vars(TakeLock(t))

-----------------------------------------------------------------------------
(* Properties.                                                             *)

ObjectStates == {"none", "made", "retained", "kept", "uncounted", "destroyed"}

(* Every variable has its type.                                            *)
TypeOK ==
  /\ writer \in Threads \union {NoOne} /\ readers \subseteq Threads
  /\ live \in BOOLEAN /\ built \in 0 .. MaxRuntimes /\ origin \in {"jit", "aot"}
  /\ inits \in 0 .. MaxRuntimes /\ downs \in 0 .. MaxRuntimes
  /\ leases \in 0 .. Cardinality(Threads) /\ residents \in 0 .. Cardinality(Buffers \union Trees)
  /\ pc \in [Threads -> {"idle", "sharing", "upgrading", "inside", "counting", "closing",
                         "leased", "reading", "making"}]
  /\ call \in [Threads -> Sharing \union Policies \union {"none"}]
  /\ objs \in [Objects -> [st : ObjectStates, of : 0 .. MaxRuntimes, by : Threads \union {NoOne}]]

(* Whoever holds a lease has the runtime, and no thread is building or     *)
(* taking down one meanwhile.                                              *)
LeaseKeepsRuntime ==
  \A t \in Threads : pc[t] \in {"leased", "making"} =>
    /\ t \in readers /\ live
    /\ \A u \in Threads : pc[u] \notin {"inside", "counting", "closing"}

OnDevice(o) == objs[o].st \notin {"none", "destroyed"}
OfTheRuntime(o) == OnDevice(o) => live /\ objs[o].of = built

(* "explicit shutdown can fail closed instead of invalidating buffers or   *)
(* trees that outlive a call" (shared_runtime.zig 4-5): a buffer or a tree *)
(* is of the runtime that is live, from before it is counted until it is   *)
(* destroyed, whoever shuts down or builds meanwhile.                      *)
ObjectsKeepRuntime == \A o \in Objects : Tracked(o) => OfTheRuntime(o)

(* What a shutdown must wait for: nobody who holds a lease, and nothing     *)
(* that was made under one, loses its runtime.                             *)
RuntimeOutlivesUses == LeaseKeepsRuntime /\ ObjectsKeepRuntime

(* The same of the arenas that a Cairo prover keeps from one call to the   *)
(* next (resident_lookup.zig): "Releases the runtime only when no calls or *)
(* backend-owned resident objects can still reference it" (162-163). They  *)
(* are not counted, and a shutdown between the calls goes through.         *)
ArenasKeepRuntime == \A o \in Arenas : OfTheRuntime(o)

(* "initializes the process runtime exactly once" (63-64): no runtime is   *)
(* built over a live one, however many callers found none at first, nor    *)
(* does a live one change its origin.                                      *)
BuiltOnce == [][live => built' = built /\ origin' = origin]_vars

(* What a snapshot may rely on though it reads the counters one by one:    *)
(* the runtime is there iff initializations exceed shutdowns (the test at  *)
(* 194-202), and no resident that its owner has is missing from the count. *)
SnapshotConsistent ==
  (\E t \in Threads : pc[t] = "reading") =>
    /\ inits = built /\ inits = downs + (IF live THEN 1 ELSE 0)
    /\ residents >= Cardinality({o \in Objects : Tracked(o) /\ objs[o].st \in {"retained", "kept"}})

(* Every call gets to its lease or returns, if the shared holds leave gaps *)
(* in which a writer can enter.                                            *)
CallsReturn ==
  []<>(readers = {}) => \A t \in Threads : pc[t] # "idle" ~> pc[t] \in {"idle", "leased"}
=============================================================================
