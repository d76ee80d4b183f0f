------------------------- MODULE SharedRuntimeProofs -------------------------
(***************************************************************************)
(* Proofs, for any threads and objects, about SharedRuntime. RuntimeInv is *)
(* inductive: the lock excludes what it should (Locking), the counters     *)
(* agree with the runtime there is (Lifecycle), a thread under its lease   *)
(* makes one object at a time (Makers), and the count of residents is the  *)
(* number of tracked objects that are not yet given back (Counting). With  *)
(* these, a shutdown that finds the count at zero finds no object at all:  *)
(* the ones not counted yet have a maker, who holds the lock. No hold of   *)
(* the lock is orphaned, since a maker has an object to go on with (Makes).*)
(***************************************************************************)
EXTENDS SharedRuntime, TLAPS, FiniteSetTheorems

Types ==
  /\ writer \in Threads \union {NoOne} /\ readers \subseteq Threads
  /\ live \in BOOLEAN /\ built \in 0 .. MaxRuntimes /\ origin \in {"jit", "aot"}
  /\ inits \in Int /\ downs \in Nat /\ leases \in Int /\ residents \in Int
  /\ pc \in [Threads -> {"idle", "sharing", "upgrading", "inside", "counting", "closing",
                         "leased", "reading", "making"}]
  /\ call \in [Threads -> Sharing \union Policies \union {"none"}]
  /\ objs \in [Objects -> [st : ObjectStates, of : 0 .. MaxRuntimes, by : Threads \union {NoOne}]]

(* Who is where under which hold of the lock.                              *)
Locking ==
  /\ \A t \in Threads : t \in readers <=> pc[t] \in {"leased", "reading", "making"}
  /\ \A t \in Threads : writer = t <=> pc[t] \in {"inside", "counting", "closing"}
  /\ writer # NoOne => readers = {}

(* The counters tell which runtime there is.                               *)
Lifecycle ==
  /\ inits = IF \E t \in Threads : pc[t] = "counting" THEN built - 1 ELSE built
  /\ built = downs + (IF live THEN 1 ELSE 0)
  /\ \A t \in Threads : pc[t] \in {"leased", "making", "counting"} => live

Lessees == {t \in Threads : pc[t] \in {"leased", "making"}}
Leasing == leases = Cardinality(Lessees)

(* Each thread that makes an object makes one, and is under a lease.       *)
InTheMaking(o) == objs[o].st \in {"made", "retained", "uncounted"}
Makers ==
  /\ \A o \in Objects : InTheMaking(o) => objs[o].by \in Threads /\ pc[objs[o].by] = "making"
  /\ \A o, p \in Objects : InTheMaking(o) /\ InTheMaking(p) /\ objs[o].by = objs[p].by => o = p
  /\ \A o \in Arenas : objs[o].st \in {"none", "made", "kept"}

(* The tracked objects that hold a count.                                  *)
Residents == {o \in Buffers \union Trees : objs[o].st \in {"retained", "kept", "destroyed"}}
Counting == residents = Cardinality(Residents)

RuntimeInv ==
  /\ Types
  /\ Locking
  /\ Lifecycle
  /\ Leasing
  /\ Makers
  /\ Counting
  /\ ObjectsKeepRuntime

(* The types that need no count.                                           *)
LEMMA TypesStep ==
  ASSUME Types, [Next]_vars
  PROVE  Types'
<1>1. ASSUME NEW t \in Threads, NEW c \in Sharing \union Policies, Start(t, c) PROVE Types'
  BY <1>1 DEF Start, Begin, Types, lock, runtime, counts
<1>2. ASSUME NEW t \in Threads, TryShutdown(t) PROVE Types'
  BY <1>2 DEF TryShutdown, Begin, Types, lock, runtime, counts
<1>3. ASSUME NEW t \in Threads, Lease(t) PROVE Types'
  BY <1>3 DEF Lease, Goto, Begin, Types, lock, runtime, counts
<1>4. ASSUME NEW t \in Threads, Miss(t) PROVE Types'
  BY <1>4 DEF Miss, Goto, Begin, Types, lock, runtime, counts
<1>5. ASSUME NEW t \in Threads, Snapshot(t) PROVE Types'
  BY <1>5 DEF Snapshot, Goto, Begin, Types, lock, runtime, counts
<1>6. ASSUME NEW t \in Threads, Enter(t) PROVE Types'
  BY <1>6 DEF Enter, Goto, Begin, Types, lock, runtime, counts
<1>7. ASSUME NEW t \in Threads, SnapshotEnds(t) PROVE Types'
  BY <1>7 DEF SnapshotEnds, Goto, Begin, Types, lock, runtime, counts
<1>8. ASSUME NEW t \in Threads, AlreadyBuilt(t) PROVE Types'
  BY <1>8 DEF AlreadyBuilt, Unlock, Goto, Begin, Types, lock, runtime, counts
<1>9. ASSUME NEW t \in Threads, Build(t) PROVE Types'
  BY <1>9, RuntimesAssumption DEF Build, Goto, Begin, Types, lock, runtime, counts
<1>10. ASSUME NEW t \in Threads, BuildFails(t) PROVE Types'
  BY <1>10 DEF BuildFails, Unlock, Goto, Begin, Types, lock, runtime, counts
<1>11. ASSUME NEW t \in Threads, Count(t) PROVE Types'
  BY <1>11 DEF Count, Counted, Unlock, Goto, Begin, Types, lock, runtime, counts
<1>12. ASSUME NEW t \in Threads, ShutdownRefused(t) PROVE Types'
  BY <1>12 DEF ShutdownRefused, Reopen, Unlock, Goto, Begin, Types, lock, runtime, counts
<1>13. ASSUME NEW t \in Threads, Shutdown(t) PROVE Types'
  <2>1. live' \in BOOLEAN /\ downs' \in Nat
    <3>1. live' \in BOOLEAN /\ (downs' = downs \/ downs' = downs + 1)
      BY <1>13, Zenon DEF Shutdown
    <3>2. QED
      BY <3>1 DEF Types
  <2>2. pc' \in [Threads -> {"idle", "sharing", "upgrading", "inside", "counting", "closing",
                            "leased", "reading", "making"}]
        /\ call' \in [Threads -> Sharing \union Policies \union {"none"}]
    BY <1>13 DEF Shutdown, Types, Goto, Begin
  <2>3. QED
    BY <1>13, <2>1, <2>2 DEF Shutdown, Unlock, Types
<1>14. ASSUME NEW t \in Threads, EndLease(t) PROVE Types'
  BY <1>14 DEF EndLease, Goto, Begin, Types, lock, runtime, counts
<1>15. ASSUME NEW t \in Threads, NEW o \in Objects, Make(t, o) PROVE Types'
  BY <1>15 DEF Make, Goto, Begin, Types, lock, runtime, counts, ObjectStates
<1>16. ASSUME NEW t \in Threads, NEW o \in Objects, MakeFails(t, o) PROVE Types'
  BY <1>16, RuntimesAssumption
     DEF MakeFails, Becomes, Goto, Begin, Types, lock, runtime, counts, Nothing, ObjectStates
<1>17. ASSUME NEW t \in Threads, NEW o \in Objects, Retain(t, o) PROVE Types'
  BY <1>17 DEF Retain, Retained, Becomes, Types, lock, runtime, counts, ObjectStates
<1>18. ASSUME NEW t \in Threads, NEW o \in Objects, HandOver(t, o) PROVE Types'
  BY <1>18 DEF HandOver, Becomes, Goto, Begin, Types, lock, runtime, counts, ObjectStates
<1>19. ASSUME NEW t \in Threads, NEW o \in Objects, Uncount(t, o) PROVE Types'
  BY <1>19 DEF Uncount, Becomes, Types, lock, runtime, counts, ObjectStates
<1>20. ASSUME NEW t \in Threads, NEW o \in Objects, Discard(t, o) PROVE Types'
  BY <1>20, RuntimesAssumption
     DEF Discard, Becomes, Goto, Begin, Types, lock, runtime, counts, Nothing, ObjectStates
<1>21. ASSUME NEW o \in Objects, Destroy(o) PROVE Types'
  BY <1>21, RuntimesAssumption
     DEF Destroy, Becomes, Disposal, Types, lock, runtime, counts, Nothing, ObjectStates
<1>22. ASSUME NEW o \in Objects, Release(o) PROVE Types'
  BY <1>22, RuntimesAssumption
     DEF Release, Becomes, Types, lock, runtime, counts, Nothing, ObjectStates
<1>23. ASSUME UNCHANGED vars PROVE Types'
  BY <1>23 DEF vars, lock, runtime, counts, Types
<1>24. QED
  BY <1>1, <1>2, <1>3, <1>4, <1>5, <1>6, <1>7, <1>8, <1>9, <1>10, <1>11, <1>12, <1>13, <1>14,
     <1>15, <1>16, <1>17, <1>18, <1>19, <1>20, <1>21, <1>22, <1>23 DEF Next, TakeLock, Proceed

(* The lock excludes.                                                       *)
LEMMA LockingStep ==
  ASSUME Types, Locking, [Next]_vars
  PROVE  Locking'
<1>1. ASSUME NEW t \in Threads, NEW c \in Sharing \union Policies, Start(t, c) PROVE Locking'
  BY <1>1 DEF Start, Begin, Locking, lock
<1>2. ASSUME NEW t \in Threads, TryShutdown(t) PROVE Locking'
  BY <1>2, RuntimesAssumption DEF TryShutdown, Free, Begin, Types, Locking
<1>3. ASSUME NEW t \in Threads, Lease(t) PROVE Locking'
  BY <1>3 DEF Lease, Goto, Begin, Types, Locking, lock, counts
<1>4. ASSUME NEW t \in Threads, Miss(t) PROVE Locking'
  BY <1>4 DEF Miss, Goto, Begin, Locking, lock
<1>5. ASSUME NEW t \in Threads, Snapshot(t) PROVE Locking'
  BY <1>5 DEF Snapshot, Goto, Begin, Types, Locking
<1>6. ASSUME NEW t \in Threads, Enter(t) PROVE Locking'
  BY <1>6, RuntimesAssumption DEF Enter, Free, Goto, Begin, Types, Locking
<1>7. ASSUME NEW t \in Threads, SnapshotEnds(t) PROVE Locking'
  BY <1>7 DEF SnapshotEnds, Goto, Begin, Types, Locking
<1>8. ASSUME NEW t \in Threads, AlreadyBuilt(t) PROVE Locking'
  BY <1>8, RuntimesAssumption DEF AlreadyBuilt, Unlock, Goto, Begin, Types, Locking
<1>9. ASSUME NEW t \in Threads, Build(t) PROVE Locking'
  BY <1>9 DEF Build, Goto, Begin, Locking, lock
<1>10. ASSUME NEW t \in Threads, BuildFails(t) PROVE Locking'
  BY <1>10, RuntimesAssumption DEF BuildFails, Unlock, Goto, Begin, Types, Locking
<1>11. ASSUME NEW t \in Threads, Count(t) PROVE Locking'
  BY <1>11, RuntimesAssumption DEF Count, Unlock, Goto, Begin, Types, Locking, lock, counts
<1>12. ASSUME NEW t \in Threads, ShutdownRefused(t) PROVE Locking'
  BY <1>12, RuntimesAssumption DEF ShutdownRefused, Reopen, Unlock, Goto, Begin, Types, Locking
<1>13. ASSUME NEW t \in Threads, Shutdown(t) PROVE Locking'
  BY <1>13, RuntimesAssumption
     DEF Shutdown, Unlock, Goto, Begin, Types, Locking, lock, runtime, counts
<1>14. ASSUME NEW t \in Threads, EndLease(t) PROVE Locking'
  BY <1>14 DEF EndLease, Goto, Begin, Types, Locking, lock, counts
<1>15. ASSUME NEW t \in Threads, NEW o \in Objects, Make(t, o) PROVE Locking'
  BY <1>15 DEF Make, Goto, Begin, Locking, lock
<1>16. ASSUME NEW t \in Threads, NEW o \in Objects, MakeFails(t, o) PROVE Locking'
  BY <1>16 DEF MakeFails, Making, Goto, Begin, Locking, lock
<1>17. ASSUME NEW t \in Threads, NEW o \in Objects, Retain(t, o) PROVE Locking'
  BY <1>17 DEF Retain, Locking, lock
<1>18. ASSUME NEW t \in Threads, NEW o \in Objects, HandOver(t, o) PROVE Locking'
  BY <1>18 DEF HandOver, Making, Goto, Begin, Locking, lock
<1>19. ASSUME NEW t \in Threads, NEW o \in Objects, Uncount(t, o) PROVE Locking'
  BY <1>19 DEF Uncount, Locking, lock
<1>20. ASSUME NEW t \in Threads, NEW o \in Objects, Discard(t, o) PROVE Locking'
  BY <1>20 DEF Discard, Making, Goto, Begin, Locking, lock
<1>21. ASSUME NEW o \in Objects, Destroy(o) PROVE Locking'
  BY <1>21 DEF Destroy, Locking, lock
<1>22. ASSUME NEW o \in Objects, Release(o) PROVE Locking'
  BY <1>22 DEF Release, Locking, lock
<1>23. ASSUME UNCHANGED vars PROVE Locking'
  BY <1>23 DEF vars, lock, Locking
<1>24. QED
  BY <1>1, <1>2, <1>3, <1>4, <1>5, <1>6, <1>7, <1>8, <1>9, <1>10, <1>11, <1>12, <1>13, <1>14,
     <1>15, <1>16, <1>17, <1>18, <1>19, <1>20, <1>21, <1>22, <1>23 DEF Next, TakeLock, Proceed

(* The counters follow the runtime.                                         *)
LEMMA LifecycleStep ==
  ASSUME Types, Locking, Lifecycle, [Next]_vars
  PROVE  Lifecycle'
<1>1. ASSUME NEW t \in Threads, NEW c \in Sharing \union Policies, Start(t, c) PROVE Lifecycle'
  BY <1>1 DEF Start, Begin, Lifecycle, runtime, counts
<1>2. ASSUME NEW t \in Threads, TryShutdown(t) PROVE Lifecycle'
  BY <1>2 DEF TryShutdown, Begin, Lifecycle, runtime, counts
<1>3. ASSUME NEW t \in Threads, Lease(t) PROVE Lifecycle'
  BY <1>3 DEF Lease, Goto, Begin, Lifecycle, runtime
<1>4. ASSUME NEW t \in Threads, Miss(t) PROVE Lifecycle'
  BY <1>4 DEF Miss, Goto, Begin, Lifecycle, runtime, counts
<1>5. ASSUME NEW t \in Threads, Snapshot(t) PROVE Lifecycle'
  BY <1>5 DEF Snapshot, Goto, Begin, Lifecycle, runtime, counts
<1>6. ASSUME NEW t \in Threads, Enter(t) PROVE Lifecycle'
  BY <1>6 DEF Enter, Goto, Begin, Lifecycle, runtime, counts
<1>7. ASSUME NEW t \in Threads, SnapshotEnds(t) PROVE Lifecycle'
  BY <1>7 DEF SnapshotEnds, Goto, Begin, Lifecycle, runtime, counts
<1>8. ASSUME NEW t \in Threads, AlreadyBuilt(t) PROVE Lifecycle'
  BY <1>8 DEF AlreadyBuilt, Goto, Begin, Lifecycle, runtime, counts
<1>9. ASSUME NEW t \in Threads, Build(t) PROVE Lifecycle'
  BY <1>9 DEF Build, MustBuild, Goto, Begin, Types, Lifecycle, counts
<1>10. ASSUME NEW t \in Threads, BuildFails(t) PROVE Lifecycle'
  BY <1>10 DEF BuildFails, Goto, Begin, Lifecycle, runtime, counts
<1>11. ASSUME NEW t \in Threads, Count(t) PROVE Lifecycle'
  BY <1>11 DEF Count, Counted, Goto, Begin, Types, Locking, Lifecycle, lock, runtime, counts
<1>12. ASSUME NEW t \in Threads, ShutdownRefused(t) PROVE Lifecycle'
  BY <1>12 DEF ShutdownRefused, Goto, Begin, Lifecycle, runtime, counts
<1>13. ASSUME NEW t \in Threads, Shutdown(t) PROVE Lifecycle'
  BY <1>13, RuntimesAssumption DEF Shutdown, Goto, Begin, Locking, Lifecycle
<1>14. ASSUME NEW t \in Threads, EndLease(t) PROVE Lifecycle'
  BY <1>14 DEF EndLease, Goto, Begin, Lifecycle, runtime
<1>15. ASSUME NEW t \in Threads, NEW o \in Objects, Make(t, o) PROVE Lifecycle'
  BY <1>15 DEF Make, Goto, Begin, Lifecycle, runtime, counts
<1>16. ASSUME NEW t \in Threads, NEW o \in Objects, MakeFails(t, o) PROVE Lifecycle'
  BY <1>16 DEF MakeFails, Making, Goto, Begin, Lifecycle, runtime, counts
<1>17. ASSUME NEW t \in Threads, NEW o \in Objects, Retain(t, o) PROVE Lifecycle'
  BY <1>17 DEF Retain, Lifecycle, runtime
<1>18. ASSUME NEW t \in Threads, NEW o \in Objects, HandOver(t, o) PROVE Lifecycle'
  BY <1>18 DEF HandOver, Making, Goto, Begin, Lifecycle, runtime, counts
<1>19. ASSUME NEW t \in Threads, NEW o \in Objects, Uncount(t, o) PROVE Lifecycle'
  BY <1>19 DEF Uncount, Lifecycle, runtime
<1>20. ASSUME NEW t \in Threads, NEW o \in Objects, Discard(t, o) PROVE Lifecycle'
  BY <1>20 DEF Discard, Making, Goto, Begin, Lifecycle, runtime, counts
<1>21. ASSUME NEW o \in Objects, Destroy(o) PROVE Lifecycle'
  BY <1>21 DEF Destroy, Lifecycle, runtime, counts
<1>22. ASSUME NEW o \in Objects, Release(o) PROVE Lifecycle'
  BY <1>22 DEF Release, Lifecycle, runtime
<1>23. ASSUME UNCHANGED vars PROVE Lifecycle'
  BY <1>23 DEF vars, runtime, counts, Lifecycle
<1>24. QED
  BY <1>1, <1>2, <1>3, <1>4, <1>5, <1>6, <1>7, <1>8, <1>9, <1>10, <1>11, <1>12, <1>13, <1>14,
     <1>15, <1>16, <1>17, <1>18, <1>19, <1>20, <1>21, <1>22, <1>23 DEF Next, TakeLock, Proceed

(* One object in the making for each maker.                                 *)
LEMMA MakersStep ==
  ASSUME Types, Locking, Makers, [Next]_vars
  PROVE  Makers'
<1>1. ASSUME NEW t \in Threads, NEW c \in Sharing \union Policies, Start(t, c) PROVE Makers'
  BY <1>1 DEF Start, Begin, Makers, InTheMaking
<1>2. ASSUME NEW t \in Threads, TryShutdown(t) PROVE Makers'
  BY <1>2 DEF TryShutdown, Free, Locking, Makers, InTheMaking
<1>3. ASSUME NEW t \in Threads, Lease(t) PROVE Makers'
  BY <1>3 DEF Lease, Goto, Begin, Makers, InTheMaking
<1>4. ASSUME NEW t \in Threads, Miss(t) PROVE Makers'
  BY <1>4 DEF Miss, Goto, Begin, Makers, InTheMaking
<1>5. ASSUME NEW t \in Threads, Snapshot(t) PROVE Makers'
  BY <1>5 DEF Snapshot, Goto, Begin, Makers, InTheMaking
<1>6. ASSUME NEW t \in Threads, Enter(t) PROVE Makers'
  BY <1>6 DEF Enter, Free, Locking, Makers, InTheMaking
<1>7. ASSUME NEW t \in Threads, SnapshotEnds(t) PROVE Makers'
  BY <1>7 DEF SnapshotEnds, Goto, Begin, Makers, InTheMaking
<1>8. ASSUME NEW t \in Threads, AlreadyBuilt(t) PROVE Makers'
  BY <1>8 DEF AlreadyBuilt, Goto, Begin, Makers, InTheMaking
<1>9. ASSUME NEW t \in Threads, Build(t) PROVE Makers'
  BY <1>9 DEF Build, Goto, Begin, Makers, InTheMaking
<1>10. ASSUME NEW t \in Threads, BuildFails(t) PROVE Makers'
  BY <1>10 DEF BuildFails, Goto, Begin, Makers, InTheMaking
<1>11. ASSUME NEW t \in Threads, Count(t) PROVE Makers'
  BY <1>11 DEF Count, Goto, Begin, Makers, InTheMaking
<1>12. ASSUME NEW t \in Threads, ShutdownRefused(t) PROVE Makers'
  BY <1>12 DEF ShutdownRefused, Goto, Begin, Makers, InTheMaking
<1>13. ASSUME NEW t \in Threads, Shutdown(t) PROVE Makers'
  BY <1>13 DEF Shutdown, Goto, Begin, Makers, InTheMaking
<1>14. ASSUME NEW t \in Threads, EndLease(t) PROVE Makers'
  BY <1>14 DEF EndLease, Goto, Begin, Makers, InTheMaking
<1>15. ASSUME NEW t \in Threads, NEW o \in Objects, Make(t, o) PROVE Makers'
  BY <1>15 DEF Make, Goto, Begin, Types, Makers, InTheMaking
<1>16. ASSUME NEW t \in Threads, NEW o \in Objects, MakeFails(t, o) PROVE Makers'
  BY <1>16 DEF MakeFails, Making, Becomes, Goto, Begin, Types, Makers, InTheMaking, Nothing
<1>17. ASSUME NEW t \in Threads, NEW o \in Objects, Retain(t, o) PROVE Makers'
  BY <1>17 DEF Retain, Making, Becomes, Makers, InTheMaking, Tracked
<1>18. ASSUME NEW t \in Threads, NEW o \in Objects, HandOver(t, o) PROVE Makers'
  BY <1>18 DEF HandOver, Making, Becomes, Goto, Begin, Types, Makers, InTheMaking
<1>19. ASSUME NEW t \in Threads, NEW o \in Objects, Uncount(t, o) PROVE Makers'
  BY <1>19 DEF Uncount, Making, Becomes, Makers, InTheMaking
<1>20. ASSUME NEW t \in Threads, NEW o \in Objects, Discard(t, o) PROVE Makers'
  BY <1>20 DEF Discard, Making, Becomes, Goto, Begin, Types, Makers, InTheMaking, Nothing
<1>21. ASSUME NEW o \in Objects, Destroy(o) PROVE Makers'
  BY <1>21 DEF Destroy, Becomes, Disposal, Makers, InTheMaking, Tracked, Nothing
<1>22. ASSUME NEW o \in Objects, Release(o) PROVE Makers'
  BY <1>22 DEF Release, Becomes, Makers, InTheMaking, Nothing
<1>23. ASSUME UNCHANGED vars PROVE Makers'
  BY <1>23 DEF vars, Makers, InTheMaking
<1>24. QED
  BY <1>1, <1>2, <1>3, <1>4, <1>5, <1>6, <1>7, <1>8, <1>9, <1>10, <1>11, <1>12, <1>13, <1>14,
     <1>15, <1>16, <1>17, <1>18, <1>19, <1>20, <1>21, <1>22, <1>23 DEF Next, TakeLock, Proceed

(* No tracked object loses its runtime.                                     *)
LEMMA ResidencyStep ==
  ASSUME RuntimeInv, [Next]_vars
  PROVE  ObjectsKeepRuntime'
<1>1. ASSUME NEW t \in Threads, NEW c \in Sharing \union Policies, Start(t, c) PROVE ObjectsKeepRuntime'
  BY <1>1 DEF Start, RuntimeInv, ObjectsKeepRuntime, OfTheRuntime, OnDevice, runtime
<1>2. ASSUME NEW t \in Threads, TryShutdown(t) PROVE ObjectsKeepRuntime'
  BY <1>2 DEF TryShutdown, RuntimeInv, ObjectsKeepRuntime, OfTheRuntime, OnDevice, runtime
<1>3. ASSUME NEW t \in Threads, Lease(t) PROVE ObjectsKeepRuntime'
  BY <1>3 DEF Lease, RuntimeInv, ObjectsKeepRuntime, OfTheRuntime, OnDevice, runtime
<1>4. ASSUME NEW t \in Threads, Miss(t) PROVE ObjectsKeepRuntime'
  BY <1>4 DEF Miss, RuntimeInv, ObjectsKeepRuntime, OfTheRuntime, OnDevice
<1>5. ASSUME NEW t \in Threads, Snapshot(t) PROVE ObjectsKeepRuntime'
  BY <1>5 DEF Snapshot, RuntimeInv, ObjectsKeepRuntime, OfTheRuntime, OnDevice, runtime
<1>6. ASSUME NEW t \in Threads, Enter(t) PROVE ObjectsKeepRuntime'
  BY <1>6 DEF Enter, RuntimeInv, ObjectsKeepRuntime, OfTheRuntime, OnDevice, runtime
<1>7. ASSUME NEW t \in Threads, SnapshotEnds(t) PROVE ObjectsKeepRuntime'
  BY <1>7 DEF SnapshotEnds, RuntimeInv, ObjectsKeepRuntime, OfTheRuntime, OnDevice, runtime
<1>8. ASSUME NEW t \in Threads, AlreadyBuilt(t) PROVE ObjectsKeepRuntime'
  BY <1>8 DEF AlreadyBuilt, RuntimeInv, ObjectsKeepRuntime, OfTheRuntime, OnDevice, runtime
<1>9. ASSUME NEW t \in Threads, Build(t) PROVE ObjectsKeepRuntime'
  BY <1>9 DEF Build, MustBuild, RuntimeInv, ObjectsKeepRuntime, OfTheRuntime, OnDevice
<1>10. ASSUME NEW t \in Threads, BuildFails(t) PROVE ObjectsKeepRuntime'
  BY <1>10 DEF BuildFails, MustBuild, RuntimeInv, ObjectsKeepRuntime, OfTheRuntime, OnDevice
<1>11. ASSUME NEW t \in Threads, Count(t) PROVE ObjectsKeepRuntime'
  BY <1>11 DEF Count, RuntimeInv, ObjectsKeepRuntime, OfTheRuntime, OnDevice, runtime
<1>12. ASSUME NEW t \in Threads, ShutdownRefused(t) PROVE ObjectsKeepRuntime'
  BY <1>12 DEF ShutdownRefused, RuntimeInv, ObjectsKeepRuntime, OfTheRuntime, OnDevice, runtime
<1>13. ASSUME NEW t \in Threads, Shutdown(t) PROVE ObjectsKeepRuntime'
  <2>1. Residents = {}
    <3>1. IsFiniteSet(Residents)
      BY FS_Subset, RuntimesAssumption DEF Residents
    <3>2. Cardinality(Residents) = 0
      BY <1>13 DEF Shutdown, RuntimeInv, Counting
    <3>3. QED
      BY <3>1, <3>2, FS_EmptySet
  <2>2. ASSUME NEW o \in Objects, Tracked(o) PROVE ~OnDevice(o)
    <3>1. objs[o].st \notin {"retained", "kept"}
      BY <2>1, <2>2 DEF Residents, Objects, Tracked
    <3>2. ~InTheMaking(o)
      BY <1>13, RuntimesAssumption DEF Shutdown, RuntimeInv, Locking, Makers
    <3>3. objs[o].st \in ObjectStates
      BY DEF RuntimeInv, Types
    <3>4. QED
      BY <3>1, <3>2, <3>3 DEF InTheMaking, ObjectStates, OnDevice
  <2>3. UNCHANGED objs
    BY <1>13 DEF Shutdown
  <2>4. QED
    BY <2>2, <2>3 DEF ObjectsKeepRuntime, OfTheRuntime, OnDevice
<1>14. ASSUME NEW t \in Threads, EndLease(t) PROVE ObjectsKeepRuntime'
  BY <1>14 DEF EndLease, RuntimeInv, ObjectsKeepRuntime, OfTheRuntime, OnDevice, runtime
<1>15. ASSUME NEW t \in Threads, NEW o \in Objects, Make(t, o) PROVE ObjectsKeepRuntime'
  BY <1>15 DEF Make, RuntimeInv, Lifecycle, ObjectsKeepRuntime, OfTheRuntime, OnDevice, runtime
<1>16. ASSUME NEW t \in Threads, NEW o \in Objects, MakeFails(t, o) PROVE ObjectsKeepRuntime'
  BY <1>16
     DEF MakeFails, Becomes, RuntimeInv, ObjectsKeepRuntime, OfTheRuntime, OnDevice, runtime,
         Nothing
<1>17. ASSUME NEW t \in Threads, NEW o \in Objects, Retain(t, o) PROVE ObjectsKeepRuntime'
  BY <1>17
     DEF Retain, Making, Becomes, RuntimeInv, ObjectsKeepRuntime, OfTheRuntime, OnDevice, runtime
<1>18. ASSUME NEW t \in Threads, NEW o \in Objects, HandOver(t, o) PROVE ObjectsKeepRuntime'
  BY <1>18
     DEF HandOver, Making, Becomes, RuntimeInv, ObjectsKeepRuntime, OfTheRuntime, OnDevice, runtime
<1>19. ASSUME NEW t \in Threads, NEW o \in Objects, Uncount(t, o) PROVE ObjectsKeepRuntime'
  BY <1>19
     DEF Uncount, Making, Becomes, RuntimeInv, ObjectsKeepRuntime, OfTheRuntime, OnDevice, runtime
<1>20. ASSUME NEW t \in Threads, NEW o \in Objects, Discard(t, o) PROVE ObjectsKeepRuntime'
  BY <1>20
     DEF Discard, Becomes, RuntimeInv, ObjectsKeepRuntime, OfTheRuntime, OnDevice, runtime, Nothing
<1>21. ASSUME NEW o \in Objects, Destroy(o) PROVE ObjectsKeepRuntime'
  BY <1>21
     DEF Destroy, Becomes, Disposal, RuntimeInv, ObjectsKeepRuntime, OfTheRuntime, OnDevice, runtime
<1>22. ASSUME NEW o \in Objects, Release(o) PROVE ObjectsKeepRuntime'
  BY <1>22
     DEF Release, Becomes, RuntimeInv, ObjectsKeepRuntime, OfTheRuntime, OnDevice, runtime, Nothing
<1>23. ASSUME UNCHANGED vars PROVE ObjectsKeepRuntime'
  BY <1>23 DEF vars, runtime, RuntimeInv, ObjectsKeepRuntime, OfTheRuntime, OnDevice
<1>24. QED
  BY <1>1, <1>2, <1>3, <1>4, <1>5, <1>6, <1>7, <1>8, <1>9, <1>10, <1>11, <1>12, <1>13, <1>14,
     <1>15, <1>16, <1>17, <1>18, <1>19, <1>20, <1>21, <1>22, <1>23 DEF Next, TakeLock, Proceed

(* The counted sets are finite.                                            *)
LEMMA Finite ==
  IsFiniteSet(Lessees) /\ IsFiniteSet(Residents)
  BY FS_Subset, RuntimesAssumption DEF Lessees, Residents

(* Leases are counted.                                                      *)
LEMMA LeasingStep ==
  ASSUME Types, Leasing, [Next]_vars
  PROVE  Leasing'
<1>1. ASSUME NEW t \in Threads, NEW c \in Sharing \union Policies, Start(t, c) PROVE Leasing'
  <2>1. Lessees' = Lessees /\ leases' = leases
    BY <1>1 DEF Start, Begin, Lessees, counts
  <2>2. QED
    BY <2>1 DEF Leasing
<1>2. ASSUME NEW t \in Threads, TryShutdown(t) PROVE Leasing'
  <2>1. Lessees' = Lessees /\ leases' = leases
    BY <1>2 DEF TryShutdown, Begin, Lessees, counts
  <2>2. QED
    BY <2>1 DEF Leasing
<1>3. ASSUME NEW t \in Threads, Lease(t) PROVE Leasing'
  <2>1. Lessees' = Lessees \union {t} /\ t \notin Lessees /\ leases' = leases + 1
    BY <1>3 DEF Lease, Goto, Begin, Types, Lessees, lock, counts
  <2>2. QED
    BY <2>1, Finite, FS_AddElement DEF Leasing
<1>4. ASSUME NEW t \in Threads, Miss(t) PROVE Leasing'
  <2>1. Lessees' = Lessees /\ leases' = leases
    BY <1>4 DEF Miss, Goto, Begin, Lessees, counts
  <2>2. QED
    BY <2>1 DEF Leasing
<1>5. ASSUME NEW t \in Threads, Snapshot(t) PROVE Leasing'
  <2>1. Lessees' = Lessees /\ leases' = leases
    BY <1>5 DEF Snapshot, Goto, Begin, Lessees, counts
  <2>2. QED
    BY <2>1 DEF Leasing
<1>6. ASSUME NEW t \in Threads, Enter(t) PROVE Leasing'
  <2>1. Lessees' = Lessees /\ leases' = leases
    BY <1>6 DEF Enter, Goto, Begin, Lessees, counts
  <2>2. QED
    BY <2>1 DEF Leasing
<1>7. ASSUME NEW t \in Threads, SnapshotEnds(t) PROVE Leasing'
  <2>1. Lessees' = Lessees /\ leases' = leases
    BY <1>7 DEF SnapshotEnds, Goto, Begin, Lessees, counts
  <2>2. QED
    BY <2>1 DEF Leasing
<1>8. ASSUME NEW t \in Threads, AlreadyBuilt(t) PROVE Leasing'
  <2>1. Lessees' = Lessees /\ leases' = leases
    BY <1>8 DEF AlreadyBuilt, Goto, Begin, Lessees, counts
  <2>2. QED
    BY <2>1 DEF Leasing
<1>9. ASSUME NEW t \in Threads, Build(t) PROVE Leasing'
  <2>1. Lessees' = Lessees /\ leases' = leases
    BY <1>9 DEF Build, Goto, Begin, Lessees, counts
  <2>2. QED
    BY <2>1 DEF Leasing
<1>10. ASSUME NEW t \in Threads, BuildFails(t) PROVE Leasing'
  <2>1. Lessees' = Lessees /\ leases' = leases
    BY <1>10 DEF BuildFails, Goto, Begin, Lessees, counts
  <2>2. QED
    BY <2>1 DEF Leasing
<1>11. ASSUME NEW t \in Threads, Count(t) PROVE Leasing'
  <2>1. Lessees' = Lessees /\ leases' = leases
    BY <1>11 DEF Count, Goto, Begin, Lessees
  <2>2. QED
    BY <2>1 DEF Leasing
<1>12. ASSUME NEW t \in Threads, ShutdownRefused(t) PROVE Leasing'
  <2>1. Lessees' = Lessees /\ leases' = leases
    BY <1>12 DEF ShutdownRefused, Goto, Begin, Lessees, counts
  <2>2. QED
    BY <2>1 DEF Leasing
<1>13. ASSUME NEW t \in Threads, Shutdown(t) PROVE Leasing'
  <2>1. Lessees' = Lessees /\ leases' = leases
    BY <1>13 DEF Shutdown, Goto, Begin, Lessees
  <2>2. QED
    BY <2>1 DEF Leasing
<1>14. ASSUME NEW t \in Threads, EndLease(t) PROVE Leasing'
  <2>1. Lessees' = Lessees \ {t} /\ t \in Lessees /\ leases' = leases - 1
    BY <1>14 DEF EndLease, Goto, Begin, Types, Lessees, lock, counts
  <2>2. QED
    BY <2>1, Finite, FS_RemoveElement DEF Leasing
<1>15. ASSUME NEW t \in Threads, NEW o \in Objects, Make(t, o) PROVE Leasing'
  <2>1. Lessees' = Lessees /\ leases' = leases
    BY <1>15 DEF Make, Goto, Begin, Lessees, counts
  <2>2. QED
    BY <2>1 DEF Leasing
<1>16. ASSUME NEW t \in Threads, NEW o \in Objects, MakeFails(t, o) PROVE Leasing'
  <2>1. Lessees' = Lessees /\ leases' = leases
    BY <1>16 DEF MakeFails, Making, Goto, Begin, Lessees, counts
  <2>2. QED
    BY <2>1 DEF Leasing
<1>17. ASSUME NEW t \in Threads, NEW o \in Objects, Retain(t, o) PROVE Leasing'
  <2>1. Lessees' = Lessees /\ leases' = leases
    BY <1>17 DEF Retain, Retained, Lessees
  <2>2. QED
    BY <2>1 DEF Leasing
<1>18. ASSUME NEW t \in Threads, NEW o \in Objects, HandOver(t, o) PROVE Leasing'
  <2>1. Lessees' = Lessees /\ leases' = leases
    BY <1>18 DEF HandOver, Making, Goto, Begin, Lessees, counts
  <2>2. QED
    BY <2>1 DEF Leasing
<1>19. ASSUME NEW t \in Threads, NEW o \in Objects, Uncount(t, o) PROVE Leasing'
  <2>1. Lessees' = Lessees /\ leases' = leases
    BY <1>19 DEF Uncount, Making, Lessees
  <2>2. QED
    BY <2>1 DEF Leasing
<1>20. ASSUME NEW t \in Threads, NEW o \in Objects, Discard(t, o) PROVE Leasing'
  <2>1. Lessees' = Lessees /\ leases' = leases
    BY <1>20 DEF Discard, Making, Goto, Begin, Lessees, counts
  <2>2. QED
    BY <2>1 DEF Leasing
<1>21. ASSUME NEW o \in Objects, Destroy(o) PROVE Leasing'
  <2>1. Lessees' = Lessees /\ leases' = leases
    BY <1>21 DEF Destroy, Lessees, counts
  <2>2. QED
    BY <2>1 DEF Leasing
<1>22. ASSUME NEW o \in Objects, Release(o) PROVE Leasing'
  <2>1. Lessees' = Lessees /\ leases' = leases
    BY <1>22 DEF Release, Becomes, Lessees
  <2>2. QED
    BY <2>1 DEF Leasing
<1>23. ASSUME UNCHANGED vars PROVE Leasing'
  BY <1>23 DEF vars, counts, Leasing, Lessees
<1>24. QED
  BY <1>1, <1>2, <1>3, <1>4, <1>5, <1>6, <1>7, <1>8, <1>9, <1>10, <1>11, <1>12, <1>13, <1>14,
     <1>15, <1>16, <1>17, <1>18, <1>19, <1>20, <1>21, <1>22, <1>23 DEF Next, TakeLock, Proceed

(* Residents are counted.                                                   *)
LEMMA CountingStep ==
  ASSUME Types, Makers, Counting, [Next]_vars
  PROVE  Counting'
<1>1. ASSUME NEW t \in Threads, NEW c \in Sharing \union Policies, Start(t, c) PROVE Counting'
  <2>1. Residents' = Residents /\ residents' = residents
    BY <1>1 DEF Start, Residents, counts
  <2>2. QED
    BY <2>1 DEF Counting
<1>2. ASSUME NEW t \in Threads, TryShutdown(t) PROVE Counting'
  <2>1. Residents' = Residents /\ residents' = residents
    BY <1>2 DEF TryShutdown, Residents, counts
  <2>2. QED
    BY <2>1 DEF Counting
<1>3. ASSUME NEW t \in Threads, Lease(t) PROVE Counting'
  <2>1. Residents' = Residents /\ residents' = residents
    BY <1>3 DEF Lease, Makers, Residents
  <2>2. QED
    BY <2>1 DEF Counting
<1>4. ASSUME NEW t \in Threads, Miss(t) PROVE Counting'
  <2>1. Residents' = Residents /\ residents' = residents
    BY <1>4 DEF Miss, Residents, counts
  <2>2. QED
    BY <2>1 DEF Counting
<1>5. ASSUME NEW t \in Threads, Snapshot(t) PROVE Counting'
  <2>1. Residents' = Residents /\ residents' = residents
    BY <1>5 DEF Snapshot, Residents, counts
  <2>2. QED
    BY <2>1 DEF Counting
<1>6. ASSUME NEW t \in Threads, Enter(t) PROVE Counting'
  <2>1. Residents' = Residents /\ residents' = residents
    BY <1>6 DEF Enter, Residents, counts
  <2>2. QED
    BY <2>1 DEF Counting
<1>7. ASSUME NEW t \in Threads, SnapshotEnds(t) PROVE Counting'
  <2>1. Residents' = Residents /\ residents' = residents
    BY <1>7 DEF SnapshotEnds, Residents, counts
  <2>2. QED
    BY <2>1 DEF Counting
<1>8. ASSUME NEW t \in Threads, AlreadyBuilt(t) PROVE Counting'
  <2>1. Residents' = Residents /\ residents' = residents
    BY <1>8 DEF AlreadyBuilt, Residents, counts
  <2>2. QED
    BY <2>1 DEF Counting
<1>9. ASSUME NEW t \in Threads, Build(t) PROVE Counting'
  <2>1. Residents' = Residents /\ residents' = residents
    BY <1>9 DEF Build, Residents, counts
  <2>2. QED
    BY <2>1 DEF Counting
<1>10. ASSUME NEW t \in Threads, BuildFails(t) PROVE Counting'
  <2>1. Residents' = Residents /\ residents' = residents
    BY <1>10 DEF BuildFails, Residents, counts
  <2>2. QED
    BY <2>1 DEF Counting
<1>11. ASSUME NEW t \in Threads, Count(t) PROVE Counting'
  <2>1. Residents' = Residents /\ residents' = residents
    BY <1>11 DEF Count, Counted, Residents
  <2>2. QED
    BY <2>1 DEF Counting
<1>12. ASSUME NEW t \in Threads, ShutdownRefused(t) PROVE Counting'
  <2>1. Residents' = Residents /\ residents' = residents
    BY <1>12 DEF ShutdownRefused, Residents, counts
  <2>2. QED
    BY <2>1 DEF Counting
<1>13. ASSUME NEW t \in Threads, Shutdown(t) PROVE Counting'
  <2>1. Residents' = Residents /\ residents' = residents
    BY <1>13 DEF Shutdown, Unlock, Residents
  <2>2. QED
    BY <2>1 DEF Counting
<1>14. ASSUME NEW t \in Threads, EndLease(t) PROVE Counting'
  <2>1. Residents' = Residents /\ residents' = residents
    BY <1>14 DEF EndLease, Makers, Residents
  <2>2. QED
    BY <2>1 DEF Counting
<1>15. ASSUME NEW t \in Threads, NEW o \in Objects, Make(t, o) PROVE Counting'
  <2>1. Residents' = Residents /\ residents' = residents
    BY <1>15 DEF Make, Residents, counts
  <2>2. QED
    BY <2>1 DEF Counting
<1>16. ASSUME NEW t \in Threads, NEW o \in Objects, MakeFails(t, o) PROVE Counting'
  <2>1. Residents' = Residents /\ residents' = residents
    BY <1>16 DEF MakeFails, Making, Becomes, Residents, Nothing, counts
  <2>2. QED
    BY <2>1 DEF Counting
<1>17. ASSUME NEW t \in Threads, NEW o \in Objects, Retain(t, o) PROVE Counting'
  <2>1. Residents' = Residents \union {o} /\ o \notin Residents /\ residents' = residents + 1
    BY <1>17 DEF Retain, Retained, Making, Becomes, Types, Residents, Objects, Tracked, counts
  <2>2. QED
    BY <2>1, Finite, FS_AddElement DEF Counting
<1>18. ASSUME NEW t \in Threads, NEW o \in Objects, HandOver(t, o) PROVE Counting'
  <2>1. Residents' = Residents /\ residents' = residents
    BY <1>18, RuntimesAssumption DEF HandOver, Making, Becomes, Residents, Tracked, counts
  <2>2. QED
    BY <2>1 DEF Counting
<1>19. ASSUME NEW t \in Threads, NEW o \in Objects, Uncount(t, o) PROVE Counting'
  <2>1. Residents' = Residents \ {o} /\ o \in Residents /\ residents' = residents - 1
    BY <1>19 DEF Uncount, Making, Becomes, Types, Residents, counts
  <2>2. QED
    BY <2>1, Finite, FS_RemoveElement DEF Counting
<1>20. ASSUME NEW t \in Threads, NEW o \in Objects, Discard(t, o) PROVE Counting'
  <2>1. Residents' = Residents /\ residents' = residents
    BY <1>20 DEF Discard, Making, Becomes, Residents, Nothing, counts
  <2>2. QED
    BY <2>1 DEF Counting
<1>21. ASSUME NEW o \in Objects, Destroy(o) PROVE Counting'
  <2>1. Residents' = Residents /\ residents' = residents
    BY <1>21, RuntimesAssumption DEF Destroy, Becomes, Disposal, Residents, Tracked, counts
  <2>2. QED
    BY <2>1 DEF Counting
<1>22. ASSUME NEW o \in Objects, Release(o) PROVE Counting'
  <2>1. Residents' = Residents \ {o} /\ o \in Residents /\ residents' = residents - 1
    BY <1>22 DEF Release, Becomes, Types, Makers, Residents, Objects, Nothing, counts
  <2>2. QED
    BY <2>1, Finite, FS_RemoveElement DEF Counting
<1>23. ASSUME UNCHANGED vars PROVE Counting'
  BY <1>23 DEF vars, counts, Counting, Residents
<1>24. QED
  BY <1>1, <1>2, <1>3, <1>4, <1>5, <1>6, <1>7, <1>8, <1>9, <1>10, <1>11, <1>12, <1>13, <1>14,
     <1>15, <1>16, <1>17, <1>18, <1>19, <1>20, <1>21, <1>22, <1>23 DEF Next, TakeLock, Proceed

(* The invariant holds in every reachable state.                           *)
THEOREM Invariance == Spec => []RuntimeInv
<1>1. Init => RuntimeInv
  <2> SUFFICES ASSUME Init PROVE RuntimeInv
    OBVIOUS
  <2>1. Types
    <3>1. Nothing \in [st : ObjectStates, of : 0 .. MaxRuntimes, by : Threads \union {NoOne}]
      BY RuntimesAssumption DEF Nothing, ObjectStates
    <3>2. objs \in [Objects -> [st : ObjectStates, of : 0 .. MaxRuntimes, by : Threads \union {NoOne}]]
      BY <3>1 DEF Init
    <3>3. pc \in [Threads -> {"idle", "sharing", "upgrading", "inside", "counting", "closing",
                              "leased", "reading", "making"}]
      BY DEF Init
    <3>4. call \in [Threads -> Sharing \union Policies \union {"none"}]
      BY DEF Init
    <3>5. live \in BOOLEAN
      BY DEF Init
    <3>6. built \in 0 .. MaxRuntimes /\ inits \in Int /\ downs \in Nat /\ leases \in Int /\ residents \in Int
      BY RuntimesAssumption DEF Init
    <3>7. QED
      BY <3>2, <3>3, <3>4, <3>5, <3>6 DEF Init, Types
  <2>2. Locking /\ Lifecycle
    BY RuntimesAssumption DEF Init, Locking, Lifecycle
  <2>3. Makers /\ ObjectsKeepRuntime
    BY DEF Init, Makers, InTheMaking, ObjectsKeepRuntime, OfTheRuntime, OnDevice, Nothing, Objects
  <2>4. Lessees = {} /\ Residents = {}
    BY DEF Init, Lessees, Residents, Nothing, Objects
  <2>5. Leasing /\ Counting
    BY <2>4, FS_EmptySet DEF Init, Leasing, Counting
  <2>6. QED
    BY <2>1, <2>2, <2>3, <2>5 DEF RuntimeInv
<1>2. RuntimeInv /\ [Next]_vars => RuntimeInv'
  BY TypesStep, LockingStep, LifecycleStep, MakersStep, ResidencyStep, LeasingStep, CountingStep
  DEF RuntimeInv
<1>3. QED
  BY <1>1, <1>2, PTL DEF Spec

(* Every variable keeps its type: no counter of the runtime ever goes      *)
(* below zero or past what there is to count.                              *)
THEOREM TypeCorrect == Spec => []TypeOK
<1>1. RuntimeInv => TypeOK
  <2> SUFFICES ASSUME RuntimeInv PROVE TypeOK
    OBVIOUS
  <2>1. leases \in 0 .. Cardinality(Threads)
    BY Finite, FS_Subset, FS_CardinalityType, RuntimesAssumption
    DEF RuntimeInv, Leasing, Lessees
  <2>2. residents \in 0 .. Cardinality(Buffers \union Trees)
    BY Finite, FS_Subset, FS_CardinalityType, RuntimesAssumption
    DEF RuntimeInv, Counting, Residents
  <2>3. built \in 0 .. MaxRuntimes /\ downs \in 0 .. MaxRuntimes
    BY RuntimesAssumption DEF RuntimeInv, Types, Lifecycle
  <2>4. inits \in 0 .. MaxRuntimes
    BY RuntimesAssumption DEF RuntimeInv, Types, Lifecycle
  <2>5. QED
    BY <2>1, <2>2, <2>3, <2>4 DEF RuntimeInv, Types, TypeOK
<1>2. QED
  BY <1>1, Invariance, PTL

(* A lease keeps its runtime, whoever builds or shuts down meanwhile.      *)
THEOREM LeasesHold == Spec => []LeaseKeepsRuntime
<1>1. RuntimeInv => LeaseKeepsRuntime
  BY RuntimesAssumption DEF RuntimeInv, Locking, Lifecycle, LeaseKeepsRuntime
<1>2. QED
  BY <1>1, Invariance, PTL

(* Buffers and trees are of the live runtime until they are destroyed.     *)
THEOREM ObjectsHold == Spec => []ObjectsKeepRuntime
  BY Invariance, PTL DEF RuntimeInv

(* A shutdown takes the runtime from nobody.                               *)
THEOREM RuntimeOutlives == Spec => []RuntimeOutlivesUses
  BY LeasesHold, ObjectsHold, PTL DEF RuntimeOutlivesUses

(* No runtime is built over a live one.                                    *)
THEOREM OneRuntime == Spec => BuiltOnce
<1>1. [Next]_vars => [live => built' = built /\ origin' = origin]_vars
  BY DEF Next, TakeLock, Proceed, runtime, Start, TryShutdown, Lease, Miss,
    Snapshot, Enter, SnapshotEnds, AlreadyBuilt, Build, MustBuild, BuildFails, Count,
    ShutdownRefused, Shutdown, EndLease, Make, MakeFails, Retain, HandOver, Uncount, Discard,
    Destroy, Release
<1>2. QED
  BY <1>1, PTL DEF Spec, BuiltOnce

(* A snapshot is consistent although its counters are read one by one.     *)
THEOREM SnapshotsAgree == Spec => []SnapshotConsistent
<1>1. RuntimeInv => SnapshotConsistent
  <2> SUFFICES ASSUME RuntimeInv, NEW t \in Threads, pc[t] = "reading" PROVE
        /\ inits = built /\ inits = downs + (IF live THEN 1 ELSE 0)
        /\ residents >= Cardinality({o \in Objects : Tracked(o) /\ objs[o].st \in {"retained", "kept"}})
    BY DEF SnapshotConsistent
  <2> DEFINE Owned == {o \in Objects : Tracked(o) /\ objs[o].st \in {"retained", "kept"}}
  <2>1. \A u \in Threads : pc[u] # "counting"
    BY RuntimesAssumption DEF RuntimeInv, Types, Locking
  <2>2. inits = built /\ inits = downs + (IF live THEN 1 ELSE 0)
    BY <2>1 DEF RuntimeInv, Lifecycle
  <2>3. Owned \subseteq Residents
    BY DEF Residents, Objects, Tracked
  <2>4. Cardinality(Owned) <= residents
    BY <2>3, Finite, FS_Subset DEF RuntimeInv, Counting
  <2>5. Cardinality(Owned) \in Int /\ residents \in Int
    BY <2>3, Finite, FS_Subset, FS_CardinalityType DEF RuntimeInv, Types
  <2>6. QED
    BY <2>2, <2>4, <2>5
<1>2. QED
  BY <1>1, Invariance, PTL

-----------------------------------------------------------------------------
(* Nobody waits on somebody who waits.                                     *)

(* A thread that is making an object has one, in a state it can go on from.*)
Makes ==
  \A t \in Threads : pc[t] = "making" => \E o \in Objects : InTheMaking(o) /\ objs[o].by = t

(* The maker keeps its object until it hands it over or gives it up.       *)
LEMMA MakesStep ==
  ASSUME RuntimeInv, Makes, [Next]_vars
  PROVE  Makes'
<1> USE DEF Makes, InTheMaking
<1>1. CASE UNCHANGED <<pc, objs>>
  BY <1>1
<1>2. ASSUME NEW t \in Threads, NEW o \in Objects, Make(t, o) PROVE Makes'
  BY <1>2 DEF Make, Goto, Begin, RuntimeInv, Types
<1>3. ASSUME NEW t \in Threads, NEW o \in Objects,
             MakeFails(t, o) \/ HandOver(t, o) \/ Discard(t, o)
      PROVE  Makes'
  <2>1. objs[o].by = t
    BY <1>3 DEF MakeFails, HandOver, Discard, Making
  <2>2. \A p \in Objects \ {o} : objs'[p] = objs[p]
    BY <1>3 DEF MakeFails, HandOver, Discard, Becomes, RuntimeInv, Types
  <2>3. pc' = [pc EXCEPT ![t] = "leased"]
    BY <1>3 DEF MakeFails, HandOver, Discard, Goto, Begin
  <2>4. QED
    BY <2>1, <2>2, <2>3 DEF RuntimeInv, Types
<1>4. ASSUME NEW t \in Threads, NEW o \in Objects, Retain(t, o) \/ Uncount(t, o) PROVE Makes'
  BY <1>4 DEF Retain, Uncount, Becomes, RuntimeInv, Types
<1>5. ASSUME NEW o \in Objects, Destroy(o) \/ Release(o) PROVE Makes'
  BY <1>5 DEF Destroy, Release, Becomes, RuntimeInv, Types
<1>6. ASSUME NEW t \in Threads, UNCHANGED objs,
             \E l \in {"idle", "sharing", "upgrading", "inside", "counting", "closing", "leased",
                       "reading"} : pc' = [pc EXCEPT ![t] = l]
      PROVE  Makes'
  BY <1>6 DEF RuntimeInv, Types
<1>7. ASSUME NEW t \in Threads,
             \/ \E c \in Sharing \union Policies : Start(t, c)
             \/ TryShutdown(t) \/ TakeLock(t) \/ EndLease(t)
      PROVE  Makes'
  BY <1>6, <1>7 DEF Start, TryShutdown, TakeLock, Lease, Miss, Snapshot, Enter, EndLease, Goto, Begin
<1>8. ASSUME NEW t \in Threads,
             \/ SnapshotEnds(t) \/ AlreadyBuilt(t) \/ Build(t) \/ BuildFails(t) \/ Count(t)
             \/ ShutdownRefused(t) \/ Shutdown(t)
      PROVE  Makes'
  BY <1>6, <1>8
     DEF SnapshotEnds, AlreadyBuilt, Build, BuildFails, Count, ShutdownRefused, Shutdown, Goto, Begin
<1> QED
  BY <1>1, <1>2, <1>3, <1>4, <1>5, <1>7, <1>8 DEF Next, Proceed, vars

(* The thread has a step: past the lock it never waits for another; at the *)
(* lock it waits for its holders.                                          *)
CanGoOn(t) ==
  \/ pc[t] \in {"inside", "counting", "closing", "leased", "reading"}
  \/ \E o \in Objects :
       \/ Making(t, o, "made") \/ Making(t, o, "uncounted")
       \/ Making(t, o, "retained") /\ Tracked(o)
  \/ pc[t] = "sharing" /\ writer = NoOne
  \/ pc[t] = "upgrading" /\ Free

(* Every hold of the lock has a holder that can go on to release it, and   *)
(* while any call is under way some thread can go on.                      *)
NobodyStuck ==
  /\ \A t \in Threads : t \in readers \/ writer = t => CanGoOn(t)
  /\ (\E t \in Threads : pc[t] # "idle") => \E t \in Threads : CanGoOn(t)

(* acquire never asks for the exclusive lock with its shared hold still on *)
(* (shared_runtime.zig 101-108), and no path out of a call, of an error    *)
(* either, leaves the lock taken: no hold of it is orphaned, and the       *)
(* callers cannot come to wait on each other in a circle.                  *)
THEOREM NoDeadlock == Spec => []NobodyStuck
<1>1. Init => Makes
  BY DEF Init, Makes
<1>2. RuntimeInv /\ Makes /\ [Next]_vars => Makes'
  BY MakesStep
<1>3. RuntimeInv /\ Makes => NobodyStuck
  <2> SUFFICES ASSUME RuntimeInv, Makes PROVE NobodyStuck
    OBVIOUS
  <2>1. ASSUME NEW t \in Threads, pc[t] \notin {"idle", "sharing", "upgrading"} PROVE CanGoOn(t)
    <3>1. CASE pc[t] = "making"
      BY <3>1 DEF Makes, InTheMaking, RuntimeInv, Makers, Tracked, Making, CanGoOn
    <3>2. CASE pc[t] # "making"
      BY <2>1, <3>2 DEF RuntimeInv, Types, CanGoOn
    <3> QED BY <3>1, <3>2
  <2>2. ASSUME NEW t \in Threads, t \in readers \/ writer = t PROVE CanGoOn(t)
    BY <2>1, <2>2 DEF RuntimeInv, Locking
  <2>3. ASSUME NEW t \in Threads, pc[t] # "idle" PROVE \E u \in Threads : CanGoOn(u)
    <3>1. CASE Free
      BY <2>1, <2>3, <3>1 DEF Free, CanGoOn
    <3>2. CASE ~Free
      BY <2>2, <3>2 DEF Free, RuntimeInv, Types
    <3> QED BY <3>1, <3>2
  <2> QED BY <2>2, <2>3 DEF NobodyStuck
<1> QED BY <1>1, <1>2, <1>3, Invariance, PTL DEF Spec

(* Whoever releases a count has one to release.                            *)
CountHeld ==
  \A o \in Objects : objs[o].st = "destroyed" \/ objs[o].st = "retained" => residents > 0

(* The assertion of releaseResidentResource (shared_runtime.zig 137-140)   *)
(* never fires: not from destroyResidentBuffer or a tree's deinit, nor     *)
(* from the errdefer of initResident that takes back its own count.        *)
THEOREM ReleasesAreCounted == Spec => []CountHeld
<1>1. RuntimeInv => CountHeld
  <2> SUFFICES ASSUME RuntimeInv, NEW o \in Objects,
                      objs[o].st = "destroyed" \/ objs[o].st = "retained"
               PROVE  residents > 0
    BY DEF CountHeld
  <2>1. o \in Residents
    BY DEF RuntimeInv, Makers, Residents, Objects
  <2>2. Residents # {} /\ Cardinality(Residents) \in Nat
    BY <2>1, Finite, FS_CardinalityType
  <2>3. Cardinality(Residents) # 0
    BY <2>2, Finite, FS_EmptySet
  <2> QED BY <2>2, <2>3 DEF RuntimeInv, Counting
<1> QED BY <1>1, Invariance, PTL

==============================================================================
