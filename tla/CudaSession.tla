------------------------------ MODULE CudaSession ------------------------------
(***************************************************************************)
(* The process-owned CUDA runtime (backends/cuda/runtime/): one session at *)
(* a time holds the registry, runs proofs one after the other, and keeps   *)
(* between them a bounded cache of arenas with the graphs captured on      *)
(* them. One thread calls it: the driver of integrations/native_cuda and   *)
(* the request service above it, which aborts after a close that failed.   *)
(* Any call into CUDA may fail, and cleaning up goes on after a failure.   *)
(*                                                                         *)
(* A call is one action, except where it walks over the cache: preparing   *)
(* and ending take a step per entry. Allocations and graphs have an        *)
(* identity of their own (generation, handle). Not here: temporary arenas  *)
(* (the one-shot Cairo application), uploads and reads beyond what they do *)
(* to the stream, telemetry, memory sizes (any request may not fit).       *)
(***************************************************************************)
EXTENDS Naturals, FiniteSets

CONSTANTS
  Keys, NoKey,    \* shapes of proofs: full-plan cache keys
  Capacity,       \* prepared_capacity
  Limit,          \* max_allocations, the length of the allocation registry
  LastStage,      \* stages: 1 is ingress, LastStage proof assembly
  MaxAllocations, \* allocations in the life of the process
  MaxFunctions    \* kernels bound by a session

ASSUME SessionAssumption ==
  /\ IsFiniteSet(Keys) /\ NoKey \notin Keys
  /\ Capacity \in Nat \ {0} /\ Limit \in Nat /\ Capacity < Limit
  /\ LastStage \in Nat /\ LastStage > 2
  /\ MaxAllocations \in Nat /\ MaxFunctions \in Nat

VARIABLES
  own,       \* owns_registry, with the registry's own flag
  sess,      \* Session.state
  key,       \* active_execution_key
  arena,     \* the arena the transaction took a copy of
  loader,    \* aot_loader is not null
  functions, \* size of function_cache
  handle, synced, capture, stage, next, \* the context; stage 0 is none
  bufs,      \* allocations registered with the context, all persistent
  entries,   \* execution_cache, by key: no entry has buf 0
  older,     \* who of the cached was used before whom (last_used)
  graphs,    \* graphs that exist on the device
  pc, goal,  \* the call in progress, and what ends the session
  want,      \* the key being prepared
  failed,    \* the proof, or the ending, has met an error
  clean,     \* history: no call into CUDA failed since open
  made       \* history: allocations so far

service == <<own, sess, loader, functions>>
proof   == <<key, arena>>
context == <<handle, synced, capture, stage, next>>
memory  == <<bufs, entries, older, graphs, made>>
control == <<pc, goal, want, failed, clean>>
vars == <<service, proof, context, memory, control>>

Middle == 2 .. LastStage - 1
Empty == [buf |-> 0, leases |-> 0, graphs |-> {}]
Cached == {k \in Keys : entries[k].buf # 0}

Init ==
  /\ own = FALSE /\ sess = "closed" /\ loader = FALSE /\ functions = 0
  /\ key = NoKey /\ arena = 0
  /\ handle = FALSE /\ synced = TRUE /\ capture = FALSE /\ stage = 0 /\ next = 1
  /\ bufs = {} /\ entries = [k \in Keys |-> Empty] /\ older = {} /\ graphs = {} /\ made = 0
  /\ pc = "client" /\ goal = "none" /\ want = NoKey /\ failed = FALSE /\ clean = TRUE

(* Open: the registry is taken, then context and loader are created; on an *)
(* error all of it is undone.                                              *)
Open ==
  /\ ~own
  /\ own' = TRUE /\ sess' = "idle" /\ loader' = TRUE /\ functions' = 0
  /\ handle' = TRUE /\ synced' = TRUE /\ capture' = FALSE /\ stage' = 0 /\ next' = 1
  /\ graphs' = {} /\ clean' = TRUE /\ failed' = FALSE
  /\ UNCHANGED <<proof, bufs, entries, older, made, pc, goal, want>>

Calling(s) == own /\ pc = "client" /\ goal = "none" /\ sess = s

BugIsReady == own /\ sess = "idle" /\ key = NoKey /\ stage = 0
IsReady == own /\ sess = "idle" /\ key = NoKey /\ stage = 0 /\ synced

-----------------------------------------------------------------------------
(* Preparing: an arena for the key is in the cache afterwards.             *)

Forgotten(k) == {p \in older : p[1] # k /\ p[2] # k}
Touched(k) == Forgotten(k) \union {<<c, k>> : c \in Cached \ {k}}

(* prepare, a hit: the plan that was brought is dropped.                   *)
PrepareHit(k) ==
  /\ Calling("idle") /\ k \in Cached
  /\ older' = Touched(k)
  /\ UNCHANGED <<service, proof, context, bufs, entries, graphs, made, control>>

Prepare(k) ==
  /\ Calling("idle") /\ k \notin Cached
  /\ pc' = "preparing" /\ want' = k
  /\ UNCHANGED <<service, proof, context, memory, goal, failed, clean>>

Return == pc' = "client" /\ want' = NoKey

(* What the eviction of k, or the end of the cache, does to it. Graphs are *)
(* destroyed only if nothing is in flight, the allocation whatever is; the *)
(* entry is gone though either may have failed.                            *)
Quiet == stage = 0 /\ ~capture
Destroyed(k) == IF Quiet /\ synced THEN SUBSET entries[k].graphs ELSE {{}}
Freed(k) == IF handle /\ entries[k].buf \in bufs /\ Quiet THEN {"kept", "loose", "freed"} ELSE {"kept"}

BugVacated(k) == [entries EXCEPT ![k].graphs = {}]
Vacated(k) == [entries EXCEPT ![k] = Empty]

DestroyEntry(k, D, f) ==
  /\ graphs' = graphs \ D
  /\ bufs' = IF f = "kept" THEN bufs ELSE bufs \ {entries[k].buf}
  /\ synced' = IF f = "kept" THEN synced ELSE f = "freed"
  /\ entries' = Vacated(k) /\ older' = Forgotten(k)
  /\ UNCHANGED <<handle, capture, stage, next, made>>
Succeeds(k, D, f) == D = entries[k].graphs /\ f = "freed"

Idle(k) == k \in Cached /\ entries[k].leases = 0
Victim(k) == Idle(k) /\ \A c \in Cached : Idle(c) => <<c, k>> \notin older

(* The slots are taken, or the device is short of memory.                  *)
Evict(k) ==
  /\ pc = "preparing" /\ Victim(k)
  /\ \E D \in Destroyed(k), f \in Freed(k) :
       /\ DestroyEntry(k, D, f)
       /\ clean' = (clean /\ Succeeds(k, D, f))
       /\ IF Succeeds(k, D, f) THEN UNCHANGED <<pc, want>> ELSE Return
  /\ UNCHANGED <<service, proof, goal, failed>>

(* Nothing to evict, no figures from the device, no memory, or a context   *)
(* that is not idle.                                                       *)
PrepareFails ==
  /\ pc = "preparing"
  /\ Return
  /\ UNCHANGED <<service, proof, context, memory, goal, failed, clean>>

BugInstalled(k, b) == [entries EXCEPT ![k] = [buf |-> b, leases |-> 1, graphs |-> {}]]
Installed(k, b) == [entries EXCEPT ![k] = [buf |-> b, leases |-> 0, graphs |-> {}]]

(* The new arena, registered and waited for: if the wait fails, it stays   *)
(* in the registry and nobody has it.                                      *)
Allocate ==
  /\ pc = "preparing" /\ Cardinality(Cached) < Capacity
  /\ handle /\ synced /\ Quiet /\ Cardinality(bufs) < Limit /\ made < MaxAllocations
  /\ made' = made + 1 /\ bufs' = bufs \union {made'}
  /\ \E ok \in BOOLEAN :
       /\ synced' = ok /\ clean' = (clean /\ ok)
       /\ IF ok THEN entries' = Installed(want, made') /\ older' = Touched(want)
                ELSE UNCHANGED <<entries, older>>
  /\ Return
  /\ UNCHANGED <<service, proof, handle, capture, stage, next, graphs, goal, failed>>

(* The registry is full: the new allocation is freed, without a wait.      *)
RegistryFull ==
  /\ pc = "preparing" /\ Cardinality(Cached) < Capacity
  /\ handle /\ synced /\ Quiet /\ Cardinality(bufs) = Limit
  /\ synced' = FALSE
  /\ Return
  /\ UNCHANGED <<service, proof, handle, capture, stage, next, memory, goal, failed, clean>>

-----------------------------------------------------------------------------
(* A proof. Once a call has failed the driver does nothing but abort it.   *)

BeginProof ==
  /\ Calling("idle") /\ key = NoKey
  /\ handle /\ Quiet /\ synced
  /\ sess' = "open" /\ next' = 1 /\ failed' = FALSE
  /\ UNCHANGED <<own, loader, functions, proof, handle, synced, capture, stage, memory,
                 pc, goal, want, clean>>

Proving == Calling("open") /\ ~failed
Leased(k, n) == [entries EXCEPT ![k].leases = n]

(* openPreparedCachedRetained: the arena of the key is pinned and copied.  *)
(* It may have been evicted since it was prepared.                         *)
AcquireArena(k) ==
  /\ Proving /\ key = NoKey /\ k \in Cached
  /\ key' = k /\ arena' = entries[k].buf
  /\ entries' = Leased(k, entries[k].leases + 1) /\ older' = Touched(k)
  /\ UNCHANGED <<service, context, bufs, graphs, made, control>>

BeginStage ==
  /\ Proving /\ key # NoKey /\ stage = 0 /\ next <= LastStage
  /\ stage' = next
  /\ UNCHANGED <<service, proof, handle, synced, capture, next, memory, control>>

(* Kernels, transfers; a kernel that is new to the session is bound first. *)
Launch(n) ==
  /\ Proving /\ stage # 0 /\ loader
  /\ n \in functions .. functions + 1 /\ n <= MaxFunctions
  /\ synced' = FALSE /\ functions' = n
  /\ UNCHANGED <<own, sess, loader, proof, handle, capture, stage, next, memory, control>>

GraphsOf(k) == {g \in entries[k].graphs : g[2] = stage}
Graphed(k, G) == [entries EXCEPT ![k].graphs = G]

BugDropped(k, g) == entries
Dropped(k, g) == Graphed(k, entries[k].graphs \ {g})

(* launchStageGraph. A graph that cannot be launched is destroyed, as far  *)
(* as it can be.                                                           *)
Replay(g) ==
  /\ Proving /\ stage \in Middle /\ ~capture /\ g \in GraphsOf(key)
  /\ \/ synced' = FALSE /\ UNCHANGED <<entries, graphs, failed, clean>>
     \/ /\ \E D \in SUBSET {g} : graphs' = graphs \ D
        /\ entries' = Dropped(key, g) /\ failed' = TRUE /\ clean' = FALSE
        /\ UNCHANGED synced
  /\ UNCHANGED <<service, proof, handle, capture, stage, next, bufs, older, made, pc, goal, want>>

BeginCapture ==
  /\ Proving /\ stage \in Middle /\ ~capture /\ GraphsOf(key) = {}
  /\ capture' = TRUE
  /\ UNCHANGED <<service, proof, handle, synced, stage, next, memory, control>>

(* finishStageGraphCaptureAndLaunch, if every call succeeds ...            *)
FinishCapture ==
  /\ Proving /\ capture
  /\ capture' = FALSE /\ synced' = FALSE
  /\ graphs' = graphs \union {<<arena, stage>>}
  /\ entries' = Graphed(key, entries[key].graphs \union {<<arena, stage>>})
  /\ UNCHANGED <<service, proof, handle, stage, next, bufs, older, made, control>>

(* ... and if not: the capture does not end well, its graph is not what it *)
(* should be or cannot be launched. It is destroyed, as far as it can be.  *)
CaptureFails ==
  /\ Proving /\ capture
  /\ capture' = FALSE /\ failed' = TRUE /\ clean' = FALSE
  /\ graphs' \in {graphs, graphs \union {<<arena, stage>>}}
  /\ UNCHANGED <<service, proof, handle, synced, stage, next, bufs, entries, older, made,
                 pc, goal, want>>

(* A node failed while being captured: abortStageGraphCapture.             *)
AbortCapture ==
  /\ Proving /\ capture
  /\ capture' = FALSE /\ failed' = TRUE
  /\ UNCHANGED <<service, proof, handle, synced, stage, next, memory, pc, goal, want, clean>>

EndStage ==
  /\ Proving /\ stage # 0 /\ ~capture
  /\ stage' = 0 /\ next' = next + 1
  /\ UNCHANGED <<service, proof, handle, synced, capture, memory, control>>

MarkProofComplete ==
  /\ Proving /\ stage = 0 /\ next = LastStage + 1
  /\ sess' = "proved"
  /\ UNCHANGED <<own, loader, functions, proof, context, memory, control>>

(* Any other call that fails, before it changed anything.                  *)
ProofFails ==
  /\ Proving \/ (Calling("proved") /\ ~failed)
  /\ ~capture
  /\ failed' = TRUE
  /\ UNCHANGED <<service, proof, context, memory, pc, goal, want, clean>>

BugReleased == entries
Released == IF key = NoKey THEN entries ELSE Leased(key, entries[key].leases - 1)
Release ==
  /\ key' = NoKey /\ arena' = 0
  /\ entries' = Released /\ older' = IF key = NoKey THEN older ELSE Touched(key)

(* finishRetained: the lanes are joined and the arena is given back.       *)
FinishRetained ==
  /\ Calling("proved") /\ ~failed
  /\ synced' = TRUE /\ sess' = "idle"
  /\ Release
  /\ UNCHANGED <<own, loader, functions, handle, capture, stage, next, bufs, graphs, made, control>>

(* Context.abortProof: capture, stage and stream come to an end; only the  *)
(* wait for the stream may fail to happen.                                 *)
AbortProof(ok) ==
  /\ capture' = FALSE /\ stage' = 0 /\ next' = 1
  /\ synced' \in IF synced \/ ok THEN {TRUE} ELSE BOOLEAN

(* abortRetained. If the context cannot be brought to rest, the session is *)
(* aborted as a whole; the runtime is not told.                            *)
AbortRetained(ok) ==
  /\ Calling("open") \/ Calling("proved")
  /\ failed
  /\ AbortProof(ok) /\ Release
  /\ sess' = "idle" /\ failed' = FALSE /\ clean' = (clean /\ ok)
  /\ IF ok THEN UNCHANGED <<pc, goal>> ELSE pc' = "draining" /\ goal' = "recover"
  /\ UNCHANGED <<own, loader, functions, handle, bufs, graphs, made, want>>

-----------------------------------------------------------------------------
(* Ending: the cached entries, the functions, the loader, the context.     *)
(* close stops at an error and can only be followed by abort; abort, and a *)
(* recovery that failed, go through to the end.                            *)

Close ==
  /\ Calling("idle")
  /\ pc' = "draining" /\ goal' = "close" /\ failed' = FALSE
  /\ UNCHANGED <<service, proof, context, memory, want, clean>>

(* The registry is given up whatever abort returns; of a session that is   *)
(* closed already, nothing else is.                                        *)
Abort ==
  /\ own /\ pc = "client" /\ goal \in {"none", "owed"} /\ sess \in {"idle", "closed"}
  /\ IF sess = "closed"
       THEN own' = FALSE /\ UNCHANGED <<pc, goal, failed>>
       ELSE pc' = "draining" /\ goal' = "abort" /\ failed' = FALSE /\ UNCHANGED own
  /\ UNCHANGED <<sess, loader, functions, proof, context, memory, want, clean>>

(* After a step of the ending that met an error, or none.                  *)
Onward(ok, l) ==
  /\ failed' = (failed \/ ~ok) /\ clean' = (clean /\ ok)
  /\ IF ok \/ goal # "close" THEN pc' = l /\ UNCHANGED goal
                             ELSE pc' = "client" /\ goal' = "owed"

Drain(k) ==
  /\ pc = "draining" /\ Idle(k)
  /\ \E D \in Destroyed(k), f \in Freed(k) :
       /\ DestroyEntry(k, D, f)
       /\ failed' = (failed \/ ~Succeeds(k, D, f)) /\ clean' = (clean /\ Succeeds(k, D, f))
  /\ UNCHANGED <<service, proof, pc, goal, want>>

(* close learns of an entry's error only when all are gone.                *)
Drained ==
  /\ pc = "draining" /\ \A k \in Keys : ~Idle(k)
  /\ IF failed /\ goal = "close" THEN pc' = "client" /\ goal' = "owed"
                                 ELSE pc' = "functions" /\ UNCHANGED goal
  /\ UNCHANGED <<service, proof, context, memory, want, failed, clean>>

DestroyFunction(ok) ==
  /\ pc = "functions" /\ functions > 0
  /\ functions' = IF ok THEN functions - 1 ELSE functions
  /\ Onward(ok, IF ok THEN "functions" ELSE "loader")
  /\ UNCHANGED <<own, sess, loader, proof, context, memory, want>>

FunctionsGone ==
  /\ pc = "functions" /\ functions = 0
  /\ pc' = "loader"
  /\ UNCHANGED <<service, proof, context, memory, goal, want, failed, clean>>

BugLoaderLeft(ok) == ~ok
LoaderLeft(ok) == ~ok /\ goal = "close"

DestroyLoader(ok) ==
  /\ pc = "loader"
  /\ loader' = LoaderLeft(ok)
  /\ Onward(ok, "context")
  /\ UNCHANGED <<own, sess, functions, proof, context, memory, want>>

(* Context.close waits for the stream, and refuses while anything is       *)
(* registered.                                                             *)
CloseContext(ok) ==
  /\ pc = "context" /\ goal = "close"
  /\ ok => bufs = {} /\ handle /\ Quiet
  /\ IF ok THEN /\ handle' = FALSE /\ synced' = TRUE /\ sess' = "closed" /\ own' = FALSE
                /\ pc' = "client" /\ goal' = "none" /\ UNCHANGED <<failed, clean>>
           ELSE /\ synced' \in {synced, TRUE} /\ UNCHANGED <<handle, sess, own>>
                /\ Onward(ok, "client")
  /\ UNCHANGED <<loader, functions, proof, capture, stage, next, memory, want>>

(* Context.abort frees what is still registered and destroys the context.  *)
AbortContext(ok) ==
  /\ pc = "context" /\ goal # "close"
  /\ AbortProof(ok) /\ handle' = FALSE /\ bufs' = {}
  /\ sess' = "closed" /\ own' = (own /\ goal = "recover")
  /\ pc' = "client" /\ goal' = "none" /\ failed' = FALSE /\ clean' = (clean /\ ok)
  /\ UNCHANGED <<loader, functions, proof, entries, older, graphs, made, want>>

-----------------------------------------------------------------------------
Step ==
  \/ \E k \in Keys : Evict(k) \/ Drain(k)
  \/ PrepareFails \/ Allocate \/ RegistryFull \/ Drained \/ FunctionsGone
  \/ \E ok \in BOOLEAN :
       DestroyFunction(ok) \/ DestroyLoader(ok) \/ CloseContext(ok) \/ AbortContext(ok)

Next ==
  \/ Open \/ BeginProof \/ BeginStage \/ EndStage \/ MarkProofComplete \/ FinishRetained
  \/ BeginCapture \/ FinishCapture \/ CaptureFails \/ AbortCapture \/ ProofFails
  \/ \E k \in Keys : PrepareHit(k) \/ Prepare(k) \/ AcquireArena(k)
  \/ \E n \in 0 .. MaxFunctions : Launch(n)
  \/ \E g \in graphs : Replay(g)
  \/ \E ok \in BOOLEAN : AbortRetained(ok)
  \/ Close \/ Abort
  \/ Step

Spec == Init /\ [][Next]_vars

(* A call runs to its end, and the service aborts after a failed close.    *)
FairSpec == Spec /\ WF_vars(Step) /\ WF_vars(goal = "owed" /\ Abort)

-----------------------------------------------------------------------------
(* Properties.                                                             *)

TypeOK ==
  /\ own \in BOOLEAN /\ sess \in {"idle", "open", "proved", "closed"}
  /\ loader \in BOOLEAN /\ functions \in 0 .. MaxFunctions
  /\ key \in Keys \union {NoKey} /\ arena \in 0 .. made
  /\ handle \in BOOLEAN /\ synced \in BOOLEAN /\ capture \in BOOLEAN
  /\ stage \in 0 .. LastStage /\ next \in 1 .. LastStage + 1
  /\ made \in 0 .. MaxAllocations /\ bufs \subseteq 1 .. made
  /\ entries \in [Keys -> [buf : 0 .. made, leases : {0, 1}, graphs : SUBSET ((1 .. made) \X Middle)]]
  /\ older \subseteq Cached \X Cached /\ graphs \subseteq (1 .. made) \X Middle
  /\ pc \in {"client", "preparing", "draining", "functions", "loader", "context"}
  /\ goal \in {"none", "close", "abort", "recover", "owed"}
  /\ want \in Keys \union {NoKey} /\ failed \in BOOLEAN /\ clean \in BOOLEAN

(* The arena a running proof has copied is the one its key has in the      *)
(* cache, is registered with the context, and is pinned; no other entry    *)
(* is, so that nothing is left pinned after a proof, however it ends.      *)
ArenaPinned ==
  /\ key # NoKey => arena \in bufs /\ entries[key].buf = arena /\ sess \in {"open", "proved"}
  /\ \A k \in Keys : entries[k].leases = IF k = key THEN 1 ELSE 0

(* "Bounded full-plan-keyed fixed-address arena and CUDA graph cache"      *)
(* (execution_cache.zig 1): cached arenas are registered and no two keys   *)
(* share one; a cached graph exists and was captured on its entry's arena. *)
CacheSound ==
  /\ Cardinality(Cached) <= Capacity
  /\ \A k \in Cached : entries[k].buf \in bufs /\ entries[k].graphs \subseteq graphs
  /\ \A k \in Cached : \A g \in entries[k].graphs : g[1] = entries[k].buf
  /\ \A k, c \in Cached : entries[k].buf = entries[c].buf => k = c

(* What the service takes isReady for (request_service.zig 336, 370): the  *)
(* next proof can begin and its kernels be launched. Not so between a      *)
(* close that failed and the abort that is owed.                           *)
ReadyMeansAble ==
  IsReady /\ pc = "client" /\ goal = "none" => handle /\ loader /\ Quiet /\ synced

(* Once the registry is free, nothing is left of the session but what a    *)
(* failing call into CUDA left: no context, loader, allocation or entry,   *)
(* and, without failures, no function and no graph on the device.          *)
EndsEmpty ==
  ~own =>
    /\ ~handle /\ ~loader /\ bufs = {} /\ Cached = {} /\ ~capture
    /\ clean => functions = 0 /\ graphs = {}

(* Calls return; an ending, or a close that failed, ends with the registry *)
(* free, a recovery that failed with the session closed.                   *)
CallsReturn ==
  /\ pc # "client" ~> pc = "client"
  /\ goal \in {"close", "abort", "owed"} ~> ~own
  /\ goal = "recover" ~> sess = "closed"
=============================================================================
