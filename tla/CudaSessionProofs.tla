--------------------------- MODULE CudaSessionProofs ---------------------------
(***************************************************************************)
(* Proofs about CudaSession, for any number of keys, cache entries,        *)
(* allocations, stages and kernels, whatever calls into CUDA fail.         *)
(* SessionInv is inductive: where the session is and what is already gone  *)
(* at each step of an ending (Phase), and that in a session without a      *)
(* failed call nothing is left on the device that no entry has (Clean). Two*)
(* results rest on it: the victim of an eviction is unique (LastUsed), and *)
(* each step of a call lowers a rank.                                      *)
(***************************************************************************)
EXTENDS CudaSession, FiniteSetTheorems, TLAPS

Ending == {"draining", "functions", "loader", "context"}

(* What the state of the session, the call in progress and the goal say    *)
(* about the context, the loader, the proof and the cache.                 *)
Phase ==
  /\ ~own => sess = "closed"
  /\ sess = "closed" =>
       /\ ~handle /\ ~loader /\ bufs = {} /\ Cached = {}
       /\ pc = "client" /\ goal = "none"
  /\ sess # "closed" => handle
  /\ sess # "closed" /\ goal = "none" => loader
  /\ sess \in {"open", "proved"} => pc = "client" /\ goal = "none"
  /\ sess \in {"idle", "closed"} => key = NoKey
  /\ sess # "open" => stage = 0
  /\ stage # 0 => key # NoKey /\ next = stage
  /\ capture => stage \in Middle
  /\ pc = "preparing" => sess = "idle" /\ goal = "none" /\ want \in Keys \ Cached
  /\ pc \in Ending => sess = "idle" /\ goal \in {"close", "abort", "recover"}
  /\ goal # "none" => sess = "idle"
  /\ pc \in {"functions", "loader", "context"} => Cached = {}
  /\ pc = "context" => ~loader

(* An empty slot of the cache is empty altogether.                         *)
Blank == \A k \in Keys : entries[k].buf = 0 => entries[k] = Empty

(* Without a failed call every graph on the device belongs to an entry,    *)
(* and the functions are gone once the loader's turn has come.             *)
Clean ==
  clean => /\ \A g \in graphs : \E k \in Keys : g \in entries[k].graphs
           /\ pc \in {"loader", "context"} \/ sess = "closed" => functions = 0

SessionInv == TypeOK /\ Phase /\ Blank /\ ArenaPinned /\ CacheSound /\ Clean

Entries == [buf : 0 .. made, leases : {0, 1}, graphs : SUBSET ((1 .. made) \X Middle)]

LEMMA CachedFinite == ASSUME SessionInv PROVE IsFiniteSet(Cached) /\ Cardinality(Cached) \in Nat
  <1>1. IsFiniteSet(Cached)
    BY SessionAssumption, FS_Subset DEF Cached
  <1> QED BY <1>1, FS_CardinalityType

(* Entries that keep their arenas.                                         *)
LEMMA ArenasKept ==
  ASSUME SessionInv, \A c \in Keys : entries'[c].buf = entries[c].buf, UNCHANGED bufs,
         \A c \in Cached : /\ entries'[c].graphs \subseteq graphs'
                           /\ \A g \in entries'[c].graphs : g[1] = entries[c].buf
  PROVE  Cached' = Cached /\ CacheSound'
  <1>1. Cached' = Cached
    BY DEF Cached
  <1> QED BY <1>1 DEF SessionInv, CacheSound, Cached

(* An arena that is pinned or given back.                                  *)
LEMMA LeaseFacts ==
  ASSUME SessionInv, NEW k \in Keys, NEW n \in {0, 1}, entries' = Leased(k, n)
  PROVE  /\ entries' \in [Keys -> Entries]
         /\ \A c \in Keys : /\ entries'[c].buf = entries[c].buf
                            /\ entries'[c].graphs = entries[c].graphs
                            /\ c # k => entries'[c] = entries[c]
         /\ entries'[k].leases = n
  BY DEF SessionInv, TypeOK, Entries, Leased

LEMMA LeaseStep ==
  ASSUME SessionInv, NEW k \in Keys, k \in Cached, NEW n \in {0, 1}, entries' = Leased(k, n),
         UNCHANGED <<bufs, graphs>>
  PROVE  Cached' = Cached /\ CacheSound' /\ Blank'
  <1>1. Cached' = Cached /\ CacheSound'
    <2>1. \A c \in Keys : entries'[c].buf = entries[c].buf /\ entries'[c].graphs = entries[c].graphs
      BY LeaseFacts
    <2>2. ASSUME NEW c \in Cached
          PROVE  /\ entries'[c].graphs \subseteq graphs'
                 /\ \A g \in entries'[c].graphs : g[1] = entries[c].buf
      BY <2>1 DEF SessionInv, CacheSound, Cached
    <2> QED BY <2>1, <2>2, ArenasKept
  <1>2. Blank'
    BY <1>1, LeaseFacts DEF SessionInv, Blank, Cached
  <1> QED BY <1>1, <1>2

LEMMA ReleaseStep ==
  ASSUME SessionInv, Release, UNCHANGED <<bufs, graphs, made>>
  PROVE  /\ entries' \in [Keys -> Entries] /\ Cached' = Cached /\ CacheSound' /\ Blank'
         /\ \A c \in Keys : entries'[c].leases = 0 /\ entries'[c].graphs = entries[c].graphs
         /\ older' \subseteq Cached \X Cached
  <1>1. CASE key = NoKey
    <2>1. UNCHANGED <<entries, older>>
      BY <1>1 DEF Release, Released
    <2>2. Cached' = Cached
      BY <2>1 DEF Cached
    <2>3. \A c \in Keys : entries[c].leases = 0
      BY <1>1, SessionAssumption DEF SessionInv, ArenaPinned
    <2> QED BY <2>1, <2>2, <2>3 DEF SessionInv, TypeOK, Entries, CacheSound, Blank
  <1>2. CASE key # NoKey
    <2>1. key \in Keys /\ key \in Cached /\ entries[key].leases = 1
      BY <1>2 DEF SessionInv, TypeOK, ArenaPinned, Cached
    <2>2. entries' = Leased(key, 0)
      BY <1>2, <2>1 DEF Release, Released
    <2>3. Cached' = Cached /\ CacheSound' /\ Blank'
      BY <2>1, <2>2, LeaseStep
    <2>4. \A c \in Keys : entries'[c].leases = 0 /\ entries'[c].graphs = entries[c].graphs
      BY <2>1, <2>2, LeaseFacts DEF SessionInv, ArenaPinned
    <2>5. older' \subseteq Cached \X Cached
      BY <1>2, <2>1 DEF SessionInv, TypeOK, Release, Touched, Forgotten
    <2> QED BY <2>1, <2>2, <2>3, <2>4, <2>5, LeaseFacts
  <1> QED BY <1>1, <1>2

(* The graphs of an entry change.                                          *)
LEMMA GraphFacts ==
  ASSUME SessionInv, NEW k \in Cached, NEW G \in SUBSET ((1 .. made) \X Middle), entries' = Graphed(k, G)
  PROVE  /\ entries' \in [Keys -> Entries] /\ Blank'
         /\ \A c \in Keys : /\ entries'[c].buf = entries[c].buf
                            /\ c # k => entries'[c].graphs = entries[c].graphs
         /\ entries'[k].graphs = G
  <1>1. k \in Keys
    BY DEF Cached
  <1>2. /\ entries' \in [Keys -> Entries]
        /\ \A c \in Keys : /\ entries'[c].buf = entries[c].buf
                           /\ c # k => entries'[c] = entries[c]
        /\ entries'[k].graphs = G
    BY <1>1 DEF SessionInv, TypeOK, Entries, Graphed
  <1>3. Blank'
    BY <1>2 DEF SessionInv, Blank, Cached
  <1> QED BY <1>2, <1>3

(* An entry goes: its arena, its graphs, whether or not they could be      *)
(* freed.                                                                  *)
LEMMA EntryGone ==
  ASSUME SessionInv, NEW k \in Keys, Idle(k), NEW D \in Destroyed(k), NEW f \in Freed(k),
         DestroyEntry(k, D, f)
  PROVE  /\ Cached' = Cached \ {k} /\ entries'[k] = Empty
         /\ \A c \in Keys \ {k} : entries'[c] = entries[c]
         /\ entries' \in [Keys -> Entries]
         /\ older' \subseteq (Cached \ {k}) \X (Cached \ {k})
         /\ graphs' = graphs \ D /\ D \subseteq entries[k].graphs
         /\ bufs' \subseteq bufs /\ bufs \ {entries[k].buf} \subseteq bufs' /\ synced' \in BOOLEAN
  <1>1. entries' = [entries EXCEPT ![k] = Empty]
    BY DEF DestroyEntry, Vacated
  <1>2. entries \in [Keys -> Entries] /\ Empty \in Entries
    BY DEF SessionInv, TypeOK, Entries, Empty
  <1>3. /\ entries'[k] = Empty /\ entries' \in [Keys -> Entries]
        /\ \A c \in Keys \ {k} : entries'[c] = entries[c]
    BY <1>1, <1>2
  <1>4. Cached' = Cached \ {k}
    BY <1>3 DEF Cached, Empty
  <1>5. older' \subseteq (Cached \ {k}) \X (Cached \ {k})
    BY DEF SessionInv, TypeOK, DestroyEntry, Forgotten
  <1>6. D \subseteq entries[k].graphs
    BY DEF Destroyed
  <1> QED BY <1>3, <1>4, <1>5, <1>6 DEF SessionInv, TypeOK, DestroyEntry

LEMMA EntryGoneSound ==
  ASSUME SessionInv, NEW k \in Keys, Idle(k), NEW D \in Destroyed(k), NEW f \in Freed(k),
         DestroyEntry(k, D, f)
  PROVE  /\ CacheSound'
         /\ clean /\ D = entries[k].graphs =>
              \A g \in graphs' : \E c \in Keys : g \in entries'[c].graphs
  <1>1. /\ Cached' = Cached \ {k}
        /\ \A c \in Keys \ {k} : entries'[c] = entries[c]
        /\ graphs' = graphs \ D /\ D \subseteq entries[k].graphs
        /\ bufs \ {entries[k].buf} \subseteq bufs'
    BY EntryGone
  <1>2. k \in Cached /\ Cached \subseteq Keys
    BY DEF Idle, Cached
  <1>3. Cardinality(Cached') <= Capacity
    <2>1. Cardinality(Cached \ {k}) <= Cardinality(Cached)
      BY CachedFinite, FS_Subset
    <2>2. IsFiniteSet(Cached \ {k})
      BY CachedFinite, FS_Subset
    <2>3. Cardinality(Cached \ {k}) \in Nat /\ Cardinality(Cached) \in Nat
      BY <2>2, CachedFinite, FS_CardinalityType
    <2> QED BY <1>1, <2>1, <2>3, SessionAssumption DEF SessionInv, CacheSound
  <1>4. ASSUME NEW c \in Cached'
        PROVE  /\ entries'[c].buf \in bufs' /\ entries'[c].graphs \subseteq graphs'
               /\ \A g \in entries'[c].graphs : g[1] = entries'[c].buf
    <2>1. c \in Cached /\ c # k /\ entries'[c] = entries[c] /\ entries[c].buf # entries[k].buf
      BY <1>1, <1>2, <1>4 DEF SessionInv, CacheSound
    <2>2. \A g \in entries[c].graphs : g[1] = entries[c].buf /\ g \in graphs
      BY <2>1 DEF SessionInv, CacheSound
    <2>3. \A g \in entries[k].graphs : g[1] = entries[k].buf
      BY <1>2 DEF SessionInv, CacheSound
    <2>4. entries[c].graphs \subseteq graphs'
      BY <1>1, <2>1, <2>2, <2>3
    <2>5. entries[c].buf \in bufs'
      BY <1>1, <2>1 DEF SessionInv, CacheSound
    <2> QED BY <2>1, <2>2, <2>4, <2>5
  <1>5. \A d, c \in Cached' : entries'[d].buf = entries'[c].buf => d = c
    BY <1>1, <1>2 DEF SessionInv, CacheSound
  <1>6. CacheSound'
    BY <1>3, <1>4, <1>5 DEF CacheSound
  <1>7. ASSUME clean, D = entries[k].graphs, NEW g \in graphs'
        PROVE  \E c \in Keys : g \in entries'[c].graphs
    <2>1. PICK c \in Keys : g \in entries[c].graphs
      BY <1>1, <1>7 DEF SessionInv, Clean
    <2> QED BY <1>1, <1>7, <2>1
  <1> QED BY <1>6, <1>7

LEMMA InitInv == Init => SessionInv
  <1> SUFFICES ASSUME Init PROVE SessionInv
    OBVIOUS
  <1>1. Cached = {}
    BY DEF Init, Cached, Empty
  <1>2. TypeOK
    <2>1. Empty \in [buf : 0 .. 0, leases : {0, 1}, graphs : SUBSET ((1 .. 0) \X Middle)]
      BY DEF Empty
    <2>2. entries \in [Keys -> [buf : 0 .. made, leases : {0, 1}, graphs : SUBSET ((1 .. made) \X Middle)]]
      BY <2>1 DEF Init
    <2>3. 0 \in 0 .. MaxFunctions /\ 0 \in 0 .. MaxAllocations /\ 0 \in 0 .. LastStage /\ 1 \in 1 .. LastStage + 1
      BY SessionAssumption
    <2>4. made = 0 /\ bufs = {} /\ older = {} /\ graphs = {} /\ arena \in 0 .. made
      BY DEF Init
    <2> QED BY <2>2, <2>3, <2>4 DEF Init, TypeOK
  <1>3. Phase
    BY <1>1 DEF Init, Phase, Ending
  <1>4. Blank
    BY <1>1 DEF Init, Blank, Middle
  <1>5. ArenaPinned
    BY <1>1, SessionAssumption DEF Init, Empty, ArenaPinned
  <1>6. CacheSound
    <2>1. Cardinality({}) = 0
      BY FS_EmptySet
    <2> QED BY <1>1, <2>1, SessionAssumption DEF CacheSound
  <1>7. Clean
    BY <1>1 DEF Init, Clean, Middle
  <1> QED BY <1>2, <1>3, <1>4, <1>5, <1>6, <1>7 DEF SessionInv

LEMMA OpenStep == ASSUME SessionInv, Open PROVE SessionInv'
  <1>1. TypeOK'
    <2>1. 0 \in 0 .. MaxFunctions /\ 0 \in 0 .. LastStage /\ 1 \in 1 .. LastStage + 1
      BY SessionAssumption
    <2>2. Cached' = Cached
      BY DEF Open, Cached
    <2> QED BY <2>1, <2>2 DEF SessionInv, TypeOK, Open, proof
  <1>2. Phase'
    BY DEF SessionInv, Open, Phase, proof
  <1>3. Blank'
    BY DEF SessionInv, Open, Blank
  <1>4. ArenaPinned'
    BY DEF SessionInv, Open, ArenaPinned, Phase, proof
  <1>5. CacheSound'
    BY DEF SessionInv, Open, CacheSound, Cached, Phase
  <1>6. Clean'
    BY DEF SessionInv, Open, Clean
  <1> QED BY <1>1, <1>2, <1>3, <1>4, <1>5, <1>6 DEF SessionInv

LEMMA PrepareHitStep == ASSUME SessionInv, NEW k \in Keys, PrepareHit(k) PROVE SessionInv'
  <1>1. TypeOK'
    BY DEF SessionInv, PrepareHit, Touched, Forgotten, TypeOK, Cached, service, proof, context,
           control
  <1>2. Phase'
    BY DEF SessionInv, PrepareHit, Calling, Phase, service, proof, context, control
  <1>3. Blank'
    BY DEF SessionInv, PrepareHit, Blank
  <1>4. ArenaPinned'
    BY DEF SessionInv, PrepareHit, Calling, ArenaPinned, proof
  <1>5. CacheSound'
    BY DEF SessionInv, PrepareHit, CacheSound, Cached
  <1>6. Clean'
    BY DEF SessionInv, PrepareHit, Clean, service, control
  <1> QED BY <1>1, <1>2, <1>3, <1>4, <1>5, <1>6 DEF SessionInv

LEMMA PrepareStep == ASSUME SessionInv, NEW k \in Keys, Prepare(k) PROVE SessionInv'
  <1>1. TypeOK'
    BY DEF SessionInv, Prepare, TypeOK, Cached, service, proof, context, memory
  <1>2. Phase'
    BY DEF SessionInv, Prepare, Calling, Phase, Cached, Ending, service, proof, context, memory
  <1>3. Blank'
    BY DEF SessionInv, Prepare, Blank, memory
  <1>4. ArenaPinned'
    BY DEF SessionInv, Prepare, Calling, ArenaPinned, proof, memory
  <1>5. CacheSound'
    BY DEF SessionInv, Prepare, CacheSound, Cached, memory
  <1>6. Clean'
    BY DEF SessionInv, Prepare, Clean, service, memory
  <1> QED BY <1>1, <1>2, <1>3, <1>4, <1>5, <1>6 DEF SessionInv

LEMMA EvictStep == ASSUME SessionInv, NEW k \in Keys, Evict(k) PROVE SessionInv'
  <1>1. TypeOK'
    <2>1. Idle(k) /\ key = NoKey
      BY DEF SessionInv, Phase, Evict, Victim
    <2>2. PICK D \in Destroyed(k), f \in Freed(k) : DestroyEntry(k, D, f)
      BY DEF Evict
    <2>3. /\ entries' \in [Keys -> Entries] /\ older' \subseteq Cached' \X Cached'
          /\ graphs' \subseteq graphs /\ bufs' \subseteq bufs /\ synced' \in BOOLEAN
      BY <2>1, <2>2, EntryGone
    <2>4. UNCHANGED <<handle, capture, stage, next, made>>
      BY <2>2 DEF DestroyEntry
    <2>5. /\ pc' \in {pc, "client"} /\ want' \in {want, NoKey} /\ goal' = goal
          /\ clean' \in BOOLEAN /\ failed' \in BOOLEAN
      BY DEF SessionInv, TypeOK, Evict, Return
    <2>6. UNCHANGED <<service, proof>>
      BY DEF Evict
    <2> QED BY <2>3, <2>4, <2>5, <2>6 DEF SessionInv, TypeOK, Entries, service, proof
  <1>2. Phase'
    BY DEF SessionInv, Evict, DestroyEntry, Vacated, Idle, Victim, Return, Phase, Cached, Ending,
           service, proof
  <1>3. Blank'
    BY DEF SessionInv, Evict, DestroyEntry, Vacated, Blank
  <1>4. ArenaPinned'
    BY DEF SessionInv, Evict, DestroyEntry, Vacated, Idle, Victim, Empty, ArenaPinned, Phase, proof
  <1>5. CacheSound'
    <2>1. Idle(k) /\ key = NoKey
      BY DEF SessionInv, Phase, Evict, Victim
    <2>2. PICK D \in Destroyed(k), f \in Freed(k) : DestroyEntry(k, D, f)
      BY DEF Evict
    <2> QED BY <2>1, <2>2, EntryGoneSound
  <1>6. Clean'
    <2>1. Idle(k)
      BY DEF Evict, Victim
    <2>2. PICK D \in Destroyed(k), f \in Freed(k) :
            DestroyEntry(k, D, f) /\ clean' = (clean /\ Succeeds(k, D, f))
      BY DEF Evict
    <2>3. clean' => clean /\ D = entries[k].graphs
      BY <2>2 DEF Succeeds
    <2>4. clean' => \A g \in graphs' : \E c \in Keys : g \in entries'[c].graphs
      BY <2>1, <2>2, <2>3, EntryGoneSound
    <2>5. UNCHANGED <<functions, sess>> /\ pc' \notin {"loader", "context"} /\ sess # "closed"
      BY DEF SessionInv, Phase, Evict, Return, service
    <2> QED BY <2>4, <2>5 DEF Clean
  <1> QED BY <1>1, <1>2, <1>3, <1>4, <1>5, <1>6 DEF SessionInv

LEMMA DrainStep == ASSUME SessionInv, NEW k \in Keys, Drain(k) PROVE SessionInv'
  <1>1. TypeOK'
    <2>1. Idle(k) /\ key = NoKey
      BY DEF SessionInv, Phase, Ending, Drain
    <2>2. PICK D \in Destroyed(k), f \in Freed(k) : DestroyEntry(k, D, f)
      BY DEF Drain
    <2>3. /\ entries' \in [Keys -> Entries] /\ older' \subseteq Cached' \X Cached'
          /\ graphs' \subseteq graphs /\ bufs' \subseteq bufs /\ synced' \in BOOLEAN
      BY <2>1, <2>2, EntryGone
    <2>4. UNCHANGED <<handle, capture, stage, next, made>>
      BY <2>2 DEF DestroyEntry
    <2>5. /\ pc' \in {pc, "client"} /\ want' \in {want, NoKey} /\ goal' = goal
          /\ clean' \in BOOLEAN /\ failed' \in BOOLEAN
      BY DEF SessionInv, Drain, Succeeds
    <2>6. UNCHANGED <<service, proof>>
      BY DEF Drain
    <2> QED BY <2>3, <2>4, <2>5, <2>6 DEF SessionInv, TypeOK, Entries, service, proof
  <1>2. Phase'
    BY DEF SessionInv, Drain, DestroyEntry, Phase, service, proof
  <1>3. Blank'
    BY DEF SessionInv, Drain, DestroyEntry, Vacated, Blank
  <1>4. ArenaPinned'
    BY DEF SessionInv, Drain, DestroyEntry, Vacated, Idle, Empty, ArenaPinned, Phase, proof
  <1>5. CacheSound'
    <2>1. Idle(k) /\ key = NoKey
      BY DEF SessionInv, Phase, Ending, Drain
    <2>2. PICK D \in Destroyed(k), f \in Freed(k) : DestroyEntry(k, D, f)
      BY DEF Drain
    <2> QED BY <2>1, <2>2, EntryGoneSound
  <1>6. Clean'
    <2>1. Idle(k)
      BY DEF Drain
    <2>2. PICK D \in Destroyed(k), f \in Freed(k) :
            DestroyEntry(k, D, f) /\ clean' = (clean /\ Succeeds(k, D, f))
      BY DEF Drain
    <2>3. clean' => clean /\ D = entries[k].graphs
      BY <2>2 DEF Succeeds
    <2>4. clean' => \A g \in graphs' : \E c \in Keys : g \in entries'[c].graphs
      BY <2>1, <2>2, <2>3, EntryGoneSound
    <2>5. UNCHANGED <<functions, sess>> /\ pc' \notin {"loader", "context"} /\ sess # "closed"
      BY DEF SessionInv, Phase, Drain, service
    <2> QED BY <2>4, <2>5 DEF Clean
  <1> QED BY <1>1, <1>2, <1>3, <1>4, <1>5, <1>6 DEF SessionInv

LEMMA PrepareFailsStep == ASSUME SessionInv, PrepareFails PROVE SessionInv'
  <1>1. TypeOK'
    BY DEF SessionInv, PrepareFails, Return, TypeOK, Cached, service, proof, context, memory
  <1>2. Phase'
    BY DEF SessionInv, PrepareFails, Return, Phase, Ending, service, proof, context
  <1>3. Blank'
    BY DEF SessionInv, PrepareFails, Blank, memory
  <1>4. ArenaPinned'
    BY DEF SessionInv, PrepareFails, ArenaPinned, Phase, proof, memory
  <1>5. CacheSound'
    BY DEF SessionInv, PrepareFails, CacheSound, Cached, memory
  <1>6. Clean'
    BY DEF SessionInv, PrepareFails, Return, Clean, service, memory
  <1> QED BY <1>1, <1>2, <1>3, <1>4, <1>5, <1>6 DEF SessionInv

LEMMA AllocateStep == ASSUME SessionInv, Allocate PROVE SessionInv'
  <1>1. TypeOK'
    <2>1. /\ want \in Keys \ Cached /\ made \in Nat /\ made' = made + 1
          /\ made' \in 0 .. MaxAllocations /\ bufs' \subseteq 1 .. made'
      BY SessionAssumption DEF SessionInv, TypeOK, Phase, Allocate
    <2>2. CASE UNCHANGED <<entries, older>>
      <3>1. entries' \in [Keys -> [buf : 0 .. made', leases : {0, 1},
                                   graphs : SUBSET ((1 .. made') \X Middle)]]
        BY <2>1, <2>2 DEF SessionInv, TypeOK
      <3>2. older' \subseteq Cached' \X Cached'
        BY <2>2 DEF SessionInv, TypeOK, Cached
      <3> QED BY <2>1, <3>1, <3>2 DEF SessionInv, Allocate, Return, TypeOK, service, proof
    <2>3. CASE entries' = Installed(want, made') /\ older' = Touched(want)
      <3>1. entries' \in [Keys -> [buf : 0 .. made', leases : {0, 1},
                                   graphs : SUBSET ((1 .. made') \X Middle)]]
        BY <2>1, <2>3 DEF SessionInv, TypeOK, Installed
      <3>2. Cached' = Cached \union {want}
        BY <2>1, <2>3 DEF SessionInv, TypeOK, Cached, Installed
      <3>3. older' \subseteq Cached' \X Cached'
        BY <2>1, <2>3, <3>2 DEF SessionInv, TypeOK, Touched, Forgotten
      <3> QED BY <2>1, <3>1, <3>3 DEF SessionInv, Allocate, Return, TypeOK, service, proof
    <2> QED BY <2>2, <2>3 DEF Allocate
  <1>2. Phase'
    BY DEF SessionInv, Allocate, Return, Phase, Ending, service, proof
  <1>3. Blank'
    <2>1. want \in Keys \ Cached /\ made' = made + 1 /\ made \in Nat
      BY DEF SessionInv, TypeOK, Phase, Allocate
    <2>2. CASE UNCHANGED entries
      BY <2>2 DEF SessionInv, Blank
    <2>3. CASE entries' = Installed(want, made')
      BY <2>1, <2>3 DEF SessionInv, Blank, Installed
    <2> QED BY <2>2, <2>3 DEF Allocate
  <1>4. ArenaPinned'
    BY DEF SessionInv, Allocate, Installed, ArenaPinned, Phase, TypeOK, Cached, Blank, Empty, proof
  <1>5. CacheSound'
    <2>1. want \in Keys \ Cached /\ made' = made + 1 /\ made \in Nat
      BY DEF SessionInv, TypeOK, Phase, Allocate
    <2>2. CASE UNCHANGED entries
      <3>1. Cached' = Cached
        BY <2>2 DEF Cached
      <3> QED BY <2>2, <3>1 DEF SessionInv, CacheSound, Cached, Allocate
    <2>3. CASE entries' = Installed(want, made')
      <3>1. /\ entries'[want].buf = made' /\ entries'[want].graphs = {}
            /\ \A c \in Keys \ {want} : entries'[c] = entries[c]
        BY <2>1, <2>3 DEF SessionInv, TypeOK, Installed
      <3>2. Cached' = Cached \union {want}
        BY <2>1, <3>1 DEF Cached
      <3>3. Cardinality(Cached') <= Capacity
        <4>1. Cardinality(Cached') = Cardinality(Cached) + 1
          BY <2>1, <3>2, CachedFinite, FS_AddElement
        <4>2. Cardinality(Cached) < Capacity
          BY DEF Allocate
        <4> QED BY <4>1, <4>2, CachedFinite, SessionAssumption
      <3>4. \A c \in Cached : entries[c].buf \in bufs /\ entries[c].buf < made'
        <4>1. bufs \subseteq 1 .. made /\ \A c \in Cached : entries[c].buf \in bufs
          BY DEF SessionInv, TypeOK, CacheSound
        <4>2. \A b \in 1 .. made : b < made'
          BY <2>1
        <4> QED BY <4>1, <4>2
      <3>5. bufs' = bufs \union {made'} /\ graphs' = graphs
        BY DEF Allocate
      <3>6. want \notin Cached /\ Cached \subseteq Keys
        BY <2>1 DEF Cached
      <3>7. \A c \in Cached' : entries'[c].buf \in bufs' /\ entries'[c].graphs \subseteq graphs'
        BY <3>1, <3>2, <3>4, <3>5, <3>6 DEF SessionInv, CacheSound
      <3>8. \A c \in Cached' : \A g \in entries'[c].graphs : g[1] = entries'[c].buf
        BY <3>1, <3>2, <3>6 DEF SessionInv, CacheSound
      <3>9. \A d, c \in Cached' : entries'[d].buf = entries'[c].buf => d = c
        BY <2>1, <3>1, <3>2, <3>4, <3>6 DEF SessionInv, CacheSound
      <3> QED BY <3>3, <3>7, <3>8, <3>9 DEF CacheSound
    <2> QED BY <2>2, <2>3 DEF Allocate
  <1>6. Clean'
    BY DEF SessionInv, Allocate, Installed, Return, Clean, Phase, Cached, TypeOK, Blank, Empty,
           service
  <1> QED BY <1>1, <1>2, <1>3, <1>4, <1>5, <1>6 DEF SessionInv

LEMMA RegistryFullStep == ASSUME SessionInv, RegistryFull PROVE SessionInv'
  <1>1. TypeOK'
    BY DEF SessionInv, RegistryFull, Return, Quiet, TypeOK, Cached, service, proof, memory
  <1>2. Phase'
    BY DEF SessionInv, RegistryFull, Return, Phase, Ending, service, proof
  <1>3. Blank'
    BY DEF SessionInv, RegistryFull, Blank, memory
  <1>4. ArenaPinned'
    BY DEF SessionInv, RegistryFull, ArenaPinned, Phase, proof, memory
  <1>5. CacheSound'
    BY DEF SessionInv, RegistryFull, CacheSound, Cached, memory
  <1>6. Clean'
    BY DEF SessionInv, RegistryFull, Return, Clean, service, memory
  <1> QED BY <1>1, <1>2, <1>3, <1>4, <1>5, <1>6 DEF SessionInv

LEMMA BeginProofStep == ASSUME SessionInv, BeginProof PROVE SessionInv'
  <1>1. TypeOK'
    <2>1. 1 \in 1 .. LastStage + 1
      BY SessionAssumption
    <2>2. Cached' = Cached
      BY DEF BeginProof, memory, Cached
    <2> QED BY <2>1, <2>2 DEF SessionInv, TypeOK, BeginProof, proof, memory
  <1>2. Phase'
    BY DEF SessionInv, BeginProof, Calling, Phase
  <1>3. Blank'
    BY DEF SessionInv, BeginProof, Blank, memory
  <1>4. ArenaPinned'
    BY DEF SessionInv, BeginProof, ArenaPinned, proof, memory
  <1>5. CacheSound'
    BY DEF SessionInv, BeginProof, CacheSound, Cached, memory
  <1>6. Clean'
    BY DEF SessionInv, BeginProof, Clean, memory
  <1> QED BY <1>1, <1>2, <1>3, <1>4, <1>5, <1>6 DEF SessionInv

LEMMA AcquireArenaStep == ASSUME SessionInv, NEW k \in Keys, AcquireArena(k) PROVE SessionInv'
  <1>1. TypeOK'
    BY SessionAssumption
       DEF SessionInv, AcquireArena, Leased, Touched, Forgotten, TypeOK, Cached, ArenaPinned,
           service, proof, context, memory, control
  <1>2. Phase'
    BY DEF SessionInv, AcquireArena, Proving, Calling, Phase, service, context, control
  <1>3. Blank'
    <2>1. entries[k].leases = 0 /\ k \in Cached
      BY SessionAssumption DEF SessionInv, ArenaPinned, AcquireArena
    <2>2. entries' = Leased(k, 1) /\ UNCHANGED <<bufs, graphs, made>>
      BY <2>1 DEF AcquireArena
    <2> QED BY <2>1, <2>2, LeaseStep
  <1>4. ArenaPinned'
    <2>1. entries[k].leases = 0 /\ k \in Cached
      BY SessionAssumption DEF SessionInv, ArenaPinned, AcquireArena
    <2>2. entries' = Leased(k, 1) /\ UNCHANGED <<bufs, graphs, made>>
      BY <2>1 DEF AcquireArena
    <2>3. \A c \in Keys : entries'[c].leases = IF c = k THEN 1 ELSE 0
      BY <2>2, LeaseFacts, SessionAssumption DEF SessionInv, ArenaPinned, AcquireArena
    <2>4. entries'[k].buf = entries[k].buf /\ entries[k].buf \in bufs
      BY <2>1, <2>2, LeaseFacts DEF SessionInv, CacheSound
    <2>5. key' = k /\ arena' = entries[k].buf /\ sess' = "open" /\ bufs' = bufs
      BY DEF AcquireArena, Proving, Calling, service
    <2> QED BY <2>3, <2>4, <2>5 DEF ArenaPinned
  <1>5. CacheSound'
    <2>1. entries[k].leases = 0 /\ k \in Cached
      BY SessionAssumption DEF SessionInv, ArenaPinned, AcquireArena
    <2>2. entries' = Leased(k, 1) /\ UNCHANGED <<bufs, graphs, made>>
      BY <2>1 DEF AcquireArena
    <2> QED BY <2>1, <2>2, LeaseStep
  <1>6. Clean'
    BY DEF SessionInv, AcquireArena, Leased, Clean, service, control
  <1> QED BY <1>1, <1>2, <1>3, <1>4, <1>5, <1>6 DEF SessionInv

LEMMA BeginStageStep == ASSUME SessionInv, BeginStage PROVE SessionInv'
  <1>1. TypeOK'
    BY DEF SessionInv, BeginStage, TypeOK, Cached, service, proof, memory, control
  <1>2. Phase'
    BY DEF SessionInv, BeginStage, Proving, Calling, Phase, Middle, service, proof, control
  <1>3. Blank'
    BY DEF SessionInv, BeginStage, Blank, memory
  <1>4. ArenaPinned'
    BY DEF SessionInv, BeginStage, ArenaPinned, service, proof, memory
  <1>5. CacheSound'
    BY DEF SessionInv, BeginStage, CacheSound, Cached, memory
  <1>6. Clean'
    BY DEF SessionInv, BeginStage, Clean, service, memory, control
  <1> QED BY <1>1, <1>2, <1>3, <1>4, <1>5, <1>6 DEF SessionInv

LEMMA LaunchStep == ASSUME SessionInv, NEW n \in 0 .. MaxFunctions, Launch(n) PROVE SessionInv'
  <1>1. TypeOK'
    BY DEF SessionInv, Launch, Proving, Calling, TypeOK, Cached, service, proof, memory, control
  <1>2. Phase'
    BY DEF SessionInv, Launch, Phase, proof, control
  <1>3. Blank'
    BY DEF SessionInv, Launch, Blank, memory
  <1>4. ArenaPinned'
    BY DEF SessionInv, Launch, ArenaPinned, proof, memory
  <1>5. CacheSound'
    BY DEF SessionInv, Launch, CacheSound, Cached, memory
  <1>6. Clean'
    BY DEF SessionInv, Launch, Proving, Calling, Clean, memory, control
  <1> QED BY <1>1, <1>2, <1>3, <1>4, <1>5, <1>6 DEF SessionInv

LEMMA ReplayStep == ASSUME SessionInv, NEW g \in graphs, Replay(g) PROVE SessionInv'
  <1>1. TypeOK'
    <2>1. key \in Cached /\ arena = entries[key].buf
      BY DEF SessionInv, TypeOK, ArenaPinned, Phase, Cached, Replay, Middle
    <2>2. /\ g \in entries[key].graphs
          /\ entries' \in {entries, Graphed(key, entries[key].graphs \ {g})}
          /\ UNCHANGED <<bufs, made>>
      BY DEF Replay, GraphsOf, Dropped
    <2>3. entries[key].graphs \ {g} \in SUBSET ((1 .. made) \X Middle)
      BY <2>1 DEF SessionInv, TypeOK, Cached
    <2>4. entries' \in [Keys -> Entries] /\ \A c \in Keys : entries'[c].buf = entries[c].buf
      BY <2>1, <2>2, <2>3, GraphFacts DEF SessionInv, TypeOK, Entries
    <2>5. Cached' = Cached
      BY <2>4 DEF Cached
    <2>6. graphs' \subseteq graphs /\ synced' \in BOOLEAN /\ failed' \in BOOLEAN /\ clean' \in BOOLEAN
      BY DEF SessionInv, TypeOK, Replay
    <2> QED BY <2>4, <2>5, <2>6 DEF SessionInv, TypeOK, Entries, Replay, service, proof
  <1>2. Phase'
    BY DEF SessionInv, Replay, Phase, Middle, service, proof
  <1>3. Blank'
    <2>1. key \in Cached /\ arena = entries[key].buf
      BY DEF SessionInv, TypeOK, ArenaPinned, Phase, Cached, Replay, Middle
    <2>2. /\ g \in entries[key].graphs
          /\ entries' \in {entries, Graphed(key, entries[key].graphs \ {g})}
          /\ UNCHANGED <<bufs, made>>
      BY DEF Replay, GraphsOf, Dropped
    <2>3. entries[key].graphs \ {g} \in SUBSET ((1 .. made) \X Middle)
      BY <2>1 DEF SessionInv, TypeOK, Cached
    <2> QED BY <2>1, <2>2, <2>3, GraphFacts DEF SessionInv, Blank
  <1>4. ArenaPinned'
    BY DEF SessionInv, Replay, Dropped, Graphed, ArenaPinned, TypeOK, service, proof
  <1>5. CacheSound'
    <2>1. key \in Cached /\ arena = entries[key].buf
      BY DEF SessionInv, TypeOK, ArenaPinned, Phase, Cached, Replay, Middle
    <2>2. /\ g \in entries[key].graphs
          /\ entries' \in {entries, Graphed(key, entries[key].graphs \ {g})}
          /\ UNCHANGED <<bufs, made>>
      BY DEF Replay, GraphsOf, Dropped
    <2>3. entries[key].graphs \ {g} \in SUBSET ((1 .. made) \X Middle)
      BY <2>1 DEF SessionInv, TypeOK, Cached
    <2>4. CASE UNCHANGED <<entries, graphs>>
      BY <2>2, <2>4, ArenasKept DEF SessionInv, CacheSound
    <2>5. CASE graphs \ {g} \subseteq graphs' /\ entries' = Graphed(key, entries[key].graphs \ {g})
      <3>1. /\ \A c \in Keys : /\ entries'[c].buf = entries[c].buf
                               /\ c # key => entries'[c].graphs = entries[c].graphs
            /\ entries'[key].graphs = entries[key].graphs \ {g}
        BY <2>1, <2>3, <2>5, GraphFacts
      <3>2. ASSUME NEW c \in Cached
            PROVE  /\ entries'[c].graphs \subseteq graphs'
                   /\ \A h \in entries'[c].graphs : h[1] = entries[c].buf
        <4>1. c \in Keys /\ \A h \in entries[c].graphs : h \in graphs /\ h[1] = entries[c].buf
          BY DEF SessionInv, CacheSound, Cached
        <4>2. g \in entries[c].graphs => c = key
          BY <2>1, <2>2 DEF SessionInv, CacheSound
        <4>3. CASE c = key
          BY <2>5, <3>1, <4>1, <4>3
        <4>4. CASE c # key
          <5>1. entries'[c].graphs = entries[c].graphs /\ g \notin entries[c].graphs
            BY <3>1, <4>1, <4>2, <4>4
          <5> QED BY <2>5, <4>1, <5>1
        <4> QED BY <4>3, <4>4
      <3>3. \A c \in Keys : entries'[c].buf = entries[c].buf
        BY <3>1
      <3>4. UNCHANGED bufs
        BY <2>2
      <3> QED BY <3>2, <3>3, <3>4, ArenasKept
    <2> QED BY <2>4, <2>5 DEF Replay, Dropped
  <1>6. Clean'
    BY DEF SessionInv, Replay, Clean, service
  <1> QED BY <1>1, <1>2, <1>3, <1>4, <1>5, <1>6 DEF SessionInv

LEMMA BeginCaptureStep == ASSUME SessionInv, BeginCapture PROVE SessionInv'
  <1>1. TypeOK'
    BY DEF SessionInv, BeginCapture, TypeOK, Cached, service, proof, memory, control
  <1>2. Phase'
    BY DEF SessionInv, BeginCapture, Phase, Middle, service, proof, control
  <1>3. Blank'
    BY DEF SessionInv, BeginCapture, Blank, memory
  <1>4. ArenaPinned'
    BY DEF SessionInv, BeginCapture, ArenaPinned, service, proof, memory
  <1>5. CacheSound'
    BY DEF SessionInv, BeginCapture, CacheSound, Cached, memory
  <1>6. Clean'
    BY DEF SessionInv, BeginCapture, Clean, service, memory, control
  <1> QED BY <1>1, <1>2, <1>3, <1>4, <1>5, <1>6 DEF SessionInv

LEMMA FinishCaptureStep == ASSUME SessionInv, FinishCapture PROVE SessionInv'
  <1>1. TypeOK'
    <2>1. key \in Cached /\ arena = entries[key].buf
      BY DEF SessionInv, TypeOK, ArenaPinned, Phase, Cached, FinishCapture, Middle
    <2>2. <<arena, stage>> \in (1 .. made) \X Middle
      BY <2>1 DEF SessionInv, TypeOK, Phase, Cached, FinishCapture
    <2>3. entries[key].graphs \union {<<arena, stage>>} \in SUBSET ((1 .. made) \X Middle)
      BY <2>1, <2>2 DEF SessionInv, TypeOK, Cached
    <2>4. /\ entries' = Graphed(key, entries[key].graphs \union {<<arena, stage>>})
          /\ graphs' = graphs \union {<<arena, stage>>} /\ UNCHANGED <<bufs, made>>
      BY DEF FinishCapture
    <2>5. entries' \in [Keys -> Entries] /\ \A c \in Keys : entries'[c].buf = entries[c].buf
      BY <2>1, <2>3, <2>4, GraphFacts
    <2>6. Cached' = Cached
      BY <2>5 DEF Cached
    <2>7. graphs' \subseteq (1 .. made) \X Middle
      BY <2>2, <2>4 DEF SessionInv, TypeOK
    <2>8. /\ capture' = FALSE /\ synced' = FALSE
          /\ UNCHANGED <<service, proof, handle, stage, next, older, control>>
      BY DEF FinishCapture
    <2>9. entries' \in [Keys -> Entries]' /\ arena' \in 0 .. made'
      BY <2>4, <2>5, <2>8 DEF SessionInv, TypeOK, Entries, proof
    <2>10. older' \subseteq Cached' \X Cached' /\ bufs' \subseteq 1 .. made'
      BY <2>4, <2>6, <2>8 DEF SessionInv, TypeOK
    <2>11. graphs' \subseteq (1 .. made') \X Middle
      BY <2>4, <2>7
    <2>12. /\ own' \in BOOLEAN /\ sess' \in {"idle", "open", "proved", "closed"}
           /\ loader' \in BOOLEAN /\ functions' \in 0 .. MaxFunctions
           /\ key' \in Keys \union {NoKey} /\ handle' \in BOOLEAN
           /\ synced' \in BOOLEAN /\ capture' \in BOOLEAN
      BY <2>8 DEF SessionInv, TypeOK, service, proof
    <2>13. /\ stage' \in 0 .. LastStage /\ next' \in 1 .. LastStage + 1
           /\ made' \in 0 .. MaxAllocations
      BY <2>4, <2>8 DEF SessionInv, TypeOK
    <2>14. /\ pc' \in {"client", "preparing", "draining", "functions", "loader", "context"}
           /\ goal' \in {"none", "close", "abort", "recover", "owed"}
           /\ want' \in Keys \union {NoKey} /\ failed' \in BOOLEAN /\ clean' \in BOOLEAN
      BY <2>8 DEF SessionInv, TypeOK, control
    <2> QED BY <2>9, <2>10, <2>11, <2>12, <2>13, <2>14 DEF TypeOK, Entries
  <1>2. Phase'
    BY DEF SessionInv, FinishCapture, Phase, Middle, service, proof, control
  <1>3. Blank'
    <2>1. key \in Cached /\ arena = entries[key].buf
      BY DEF SessionInv, TypeOK, ArenaPinned, Phase, Cached, FinishCapture, Middle
    <2>2. <<arena, stage>> \in (1 .. made) \X Middle
      BY <2>1 DEF SessionInv, TypeOK, Phase, Cached, FinishCapture
    <2>3. entries[key].graphs \union {<<arena, stage>>} \in SUBSET ((1 .. made) \X Middle)
      BY <2>1, <2>2 DEF SessionInv, TypeOK, Cached
    <2>4. /\ entries' = Graphed(key, entries[key].graphs \union {<<arena, stage>>})
          /\ graphs' = graphs \union {<<arena, stage>>} /\ UNCHANGED <<bufs, made>>
      BY DEF FinishCapture
    <2> QED BY <2>1, <2>3, <2>4, GraphFacts
  <1>4. ArenaPinned'
    BY DEF SessionInv, FinishCapture, Graphed, ArenaPinned, service, proof
  <1>5. CacheSound'
    <2>1. key \in Cached /\ arena = entries[key].buf
      BY DEF SessionInv, TypeOK, ArenaPinned, Phase, Cached, FinishCapture, Middle
    <2>2. <<arena, stage>> \in (1 .. made) \X Middle
      BY <2>1 DEF SessionInv, TypeOK, Phase, Cached, FinishCapture
    <2>3. entries[key].graphs \union {<<arena, stage>>} \in SUBSET ((1 .. made) \X Middle)
      BY <2>1, <2>2 DEF SessionInv, TypeOK, Cached
    <2>4. /\ entries' = Graphed(key, entries[key].graphs \union {<<arena, stage>>})
          /\ graphs' = graphs \union {<<arena, stage>>} /\ UNCHANGED <<bufs, made>>
      BY DEF FinishCapture
    <2>5. /\ \A c \in Keys : /\ entries'[c].buf = entries[c].buf
                             /\ c # key => entries'[c].graphs = entries[c].graphs
          /\ entries'[key].graphs = entries[key].graphs \union {<<arena, stage>>}
      BY <2>1, <2>3, <2>4, GraphFacts
    <2>6. ASSUME NEW c \in Cached
          PROVE  /\ entries'[c].graphs \subseteq graphs'
                 /\ \A h \in entries'[c].graphs : h[1] = entries[c].buf
      <3>1. c \in Keys /\ \A h \in entries[c].graphs : h \in graphs /\ h[1] = entries[c].buf
        BY DEF SessionInv, CacheSound, Cached
      <3>2. <<arena, stage>>[1] = entries[key].buf
        BY <2>1
      <3>3. CASE c = key
        BY <2>4, <2>5, <3>1, <3>2, <3>3
      <3>4. CASE c # key
        <4>1. entries'[c].graphs = entries[c].graphs
          BY <2>5, <3>1, <3>4
        <4> QED BY <2>4, <3>1, <4>1
      <3> QED BY <3>3, <3>4
    <2>7. \A c \in Keys : entries'[c].buf = entries[c].buf
      BY <2>5
    <2>8. UNCHANGED bufs
      BY <2>4
    <2> QED BY <2>6, <2>7, <2>8, ArenasKept
  <1>6. Clean'
    <2>1. key \in Cached /\ arena = entries[key].buf
      BY DEF SessionInv, TypeOK, ArenaPinned, Phase, Cached, FinishCapture, Middle
    <2>2. <<arena, stage>> \in (1 .. made) \X Middle
      BY <2>1 DEF SessionInv, TypeOK, Phase, Cached, FinishCapture
    <2>3. entries[key].graphs \union {<<arena, stage>>} \in SUBSET ((1 .. made) \X Middle)
      BY <2>1, <2>2 DEF SessionInv, TypeOK, Cached
    <2>4. /\ entries' = Graphed(key, entries[key].graphs \union {<<arena, stage>>})
          /\ graphs' = graphs \union {<<arena, stage>>} /\ UNCHANGED <<bufs, made>>
      BY DEF FinishCapture
    <2>5. /\ \A c \in Keys : c # key => entries'[c].graphs = entries[c].graphs
          /\ entries'[key].graphs = entries[key].graphs \union {<<arena, stage>>}
      BY <2>1, <2>3, <2>4, GraphFacts
    <2>6. ASSUME clean, NEW g \in graphs'
          PROVE  \E c \in Keys : g \in entries'[c].graphs
      <3>1. CASE g = <<arena, stage>>
        BY <2>1, <2>5, <3>1 DEF Cached
      <3>2. CASE g \in graphs
        <4>1. PICK c \in Keys : g \in entries[c].graphs
          BY <2>6, <3>2 DEF SessionInv, Clean
        <4> QED BY <2>5, <4>1
      <3> QED BY <2>4, <3>1, <3>2
    <2> QED BY <2>6 DEF SessionInv, Clean, FinishCapture, Proving, Calling, service, control
  <1> QED BY <1>1, <1>2, <1>3, <1>4, <1>5, <1>6 DEF SessionInv

LEMMA CaptureFailsStep == ASSUME SessionInv, CaptureFails PROVE SessionInv'
  <1>1. TypeOK'
    <2>1. key \in Cached /\ arena = entries[key].buf
      BY DEF SessionInv, TypeOK, ArenaPinned, Phase, Cached, CaptureFails, Middle
    <2>2. <<arena, stage>> \in (1 .. made) \X Middle
      BY <2>1 DEF SessionInv, TypeOK, Phase, Cached, CaptureFails
    <2>3. graphs' \subseteq (1 .. made) \X Middle
      BY <2>2 DEF SessionInv, TypeOK, CaptureFails
    <2>4. Cached' = Cached
      BY DEF CaptureFails, Cached
    <2>5. /\ capture' = FALSE /\ failed' = TRUE /\ clean' = FALSE
          /\ UNCHANGED <<service, proof, handle, synced, stage, next, bufs, entries, older, made,
                         pc, goal, want>>
      BY DEF CaptureFails
    <2>6. older' \subseteq Cached' \X Cached'
      BY <2>4, <2>5 DEF SessionInv, TypeOK
    <2>7. graphs' \subseteq (1 .. made') \X Middle
      BY <2>3, <2>5
    <2>8. capture' \in BOOLEAN /\ failed' \in BOOLEAN /\ clean' \in BOOLEAN
      BY <2>5
    <2> QED BY <2>5, <2>6, <2>7, <2>8 DEF SessionInv, TypeOK, service, proof
  <1>2. Phase'
    BY DEF SessionInv, CaptureFails, Phase, Middle, service, proof
  <1>3. Blank'
    BY DEF SessionInv, CaptureFails, Blank
  <1>4. ArenaPinned'
    BY DEF SessionInv, CaptureFails, ArenaPinned, service, proof
  <1>5. CacheSound'
    BY DEF SessionInv, CaptureFails, CacheSound, Cached
  <1>6. Clean'
    BY DEF SessionInv, CaptureFails, Clean
  <1> QED BY <1>1, <1>2, <1>3, <1>4, <1>5, <1>6 DEF SessionInv

LEMMA AbortCaptureStep == ASSUME SessionInv, AbortCapture PROVE SessionInv'
  <1>1. TypeOK'
    BY DEF SessionInv, AbortCapture, Proving, Calling, TypeOK, Cached, service, proof, memory
  <1>2. Phase'
    BY DEF SessionInv, AbortCapture, Phase, Middle, service, proof
  <1>3. Blank'
    BY DEF SessionInv, AbortCapture, Blank, memory
  <1>4. ArenaPinned'
    BY DEF SessionInv, AbortCapture, ArenaPinned, service, proof, memory
  <1>5. CacheSound'
    BY DEF SessionInv, AbortCapture, CacheSound, Cached, memory
  <1>6. Clean'
    BY DEF SessionInv, AbortCapture, Clean, service, memory
  <1> QED BY <1>1, <1>2, <1>3, <1>4, <1>5, <1>6 DEF SessionInv

LEMMA EndStageStep == ASSUME SessionInv, EndStage PROVE SessionInv'
  <1>1. TypeOK'
    BY SessionAssumption
       DEF SessionInv, EndStage, TypeOK, Cached, Phase, service, proof, context, memory, control
  <1>2. Phase'
    BY DEF SessionInv, EndStage, Phase, service, control
  <1>3. Blank'
    BY DEF SessionInv, EndStage, Blank, memory
  <1>4. ArenaPinned'
    BY DEF SessionInv, EndStage, ArenaPinned, service, proof, memory
  <1>5. CacheSound'
    BY DEF SessionInv, EndStage, CacheSound, Cached, memory
  <1>6. Clean'
    BY DEF SessionInv, EndStage, Clean, service, memory, control
  <1> QED BY <1>1, <1>2, <1>3, <1>4, <1>5, <1>6 DEF SessionInv

LEMMA MarkProofCompleteStep == ASSUME SessionInv, MarkProofComplete PROVE SessionInv'
  <1>1. TypeOK'
    BY DEF SessionInv, MarkProofComplete, TypeOK, Cached, service, proof, context, memory, control
  <1>2. Phase'
    BY DEF SessionInv, MarkProofComplete, Proving, Calling, Phase, context, control
  <1>3. Blank'
    BY DEF SessionInv, MarkProofComplete, Blank, memory
  <1>4. ArenaPinned'
    BY DEF SessionInv, MarkProofComplete, ArenaPinned, proof, memory
  <1>5. CacheSound'
    BY DEF SessionInv, MarkProofComplete, CacheSound, Cached, memory
  <1>6. Clean'
    BY DEF SessionInv, MarkProofComplete, Clean, memory, control
  <1> QED BY <1>1, <1>2, <1>3, <1>4, <1>5, <1>6 DEF SessionInv

LEMMA ProofFailsStep == ASSUME SessionInv, ProofFails PROVE SessionInv'
  <1>1. TypeOK'
    BY DEF SessionInv, ProofFails, TypeOK, Cached, service, proof, context, memory
  <1>2. Phase'
    BY DEF SessionInv, ProofFails, Proving, Calling, Phase, service, proof, context
  <1>3. Blank'
    BY DEF SessionInv, ProofFails, Blank, memory
  <1>4. ArenaPinned'
    BY DEF SessionInv, ProofFails, ArenaPinned, service, proof, memory
  <1>5. CacheSound'
    BY DEF SessionInv, ProofFails, CacheSound, Cached, memory
  <1>6. Clean'
    BY DEF SessionInv, ProofFails, Clean, service, memory
  <1> QED BY <1>1, <1>2, <1>3, <1>4, <1>5, <1>6 DEF SessionInv

LEMMA FinishRetainedStep == ASSUME SessionInv, FinishRetained PROVE SessionInv'
  <1>1. TypeOK'
    BY DEF SessionInv, FinishRetained, Release, Released, Leased, Touched, Forgotten, TypeOK,
           Cached, ArenaPinned, service, proof, control
  <1>2. Phase'
    BY DEF SessionInv, FinishRetained, Calling, Release, Phase, control
  <1>3. Blank'
    BY ReleaseStep DEF FinishRetained
  <1>4. ArenaPinned'
    BY SessionAssumption
       DEF SessionInv, FinishRetained, Release, Released, Leased, ArenaPinned, TypeOK, service,
           proof, memory
  <1>5. CacheSound'
    BY ReleaseStep DEF FinishRetained
  <1>6. Clean'
    BY DEF SessionInv, FinishRetained, Release, Released, Leased, Clean, control
  <1> QED BY <1>1, <1>2, <1>3, <1>4, <1>5, <1>6 DEF SessionInv

LEMMA AbortRetainedStep == ASSUME SessionInv, NEW ok \in BOOLEAN, AbortRetained(ok) PROVE SessionInv'
  <1>1. TypeOK'
    <2>1. entries' \in [Keys -> Entries] /\ Cached' = Cached /\ older' \subseteq Cached \X Cached
      BY ReleaseStep DEF AbortRetained
    <2>2. key' = NoKey /\ arena' = 0 /\ synced' \in BOOLEAN /\ stage' = 0 /\ next' = 1 /\ capture' = FALSE
      BY DEF AbortRetained, Release, AbortProof
    <2>3. 0 \in 0 .. made /\ 0 \in 0 .. LastStage /\ 1 \in 1 .. LastStage + 1
      BY SessionAssumption DEF SessionInv, TypeOK
    <2> QED BY <2>1, <2>2, <2>3 DEF SessionInv, TypeOK, Entries, AbortRetained
  <1>2. Phase'
    BY DEF SessionInv, AbortRetained, Calling, AbortProof, Release, Phase
  <1>3. Blank'
    BY ReleaseStep DEF AbortRetained
  <1>4. ArenaPinned'
    BY SessionAssumption
       DEF SessionInv, AbortRetained, Release, Released, Leased, ArenaPinned, TypeOK, service,
           proof, context, memory, control
  <1>5. CacheSound'
    BY ReleaseStep DEF AbortRetained
  <1>6. Clean'
    BY DEF SessionInv, AbortRetained, Release, Released, Leased, Clean, TypeOK, service, proof
  <1> QED BY <1>1, <1>2, <1>3, <1>4, <1>5, <1>6 DEF SessionInv

LEMMA CloseStep == ASSUME SessionInv, Close PROVE SessionInv'
  <1>1. TypeOK'
    BY DEF SessionInv, Close, Calling, TypeOK, Cached, service, proof, context, memory
  <1>2. Phase'
    BY DEF SessionInv, Close, Calling, Phase, service, proof, context
  <1>3. Blank'
    BY DEF SessionInv, Close, Blank, memory
  <1>4. ArenaPinned'
    BY DEF SessionInv, Close, Calling, ArenaPinned, proof, memory
  <1>5. CacheSound'
    BY DEF SessionInv, Close, CacheSound, Cached, memory
  <1>6. Clean'
    BY DEF SessionInv, Close, Clean, service, memory
  <1> QED BY <1>1, <1>2, <1>3, <1>4, <1>5, <1>6 DEF SessionInv

LEMMA AbortStep == ASSUME SessionInv, Abort PROVE SessionInv'
  <1>1. TypeOK'
    BY DEF SessionInv, Abort, TypeOK, Cached, ArenaPinned, service, proof, context, memory
  <1>2. Phase'
    BY DEF SessionInv, Abort, Phase, Cached, proof, context, memory
  <1>3. Blank'
    BY DEF SessionInv, Abort, Blank, memory
  <1>4. ArenaPinned'
    BY DEF SessionInv, Abort, ArenaPinned, proof, memory
  <1>5. CacheSound'
    BY DEF SessionInv, Abort, CacheSound, Cached, memory
  <1>6. Clean'
    BY DEF SessionInv, Abort, Clean, memory
  <1> QED BY <1>1, <1>2, <1>3, <1>4, <1>5, <1>6 DEF SessionInv

LEMMA DrainedStep == ASSUME SessionInv, Drained PROVE SessionInv'
  <1>1. TypeOK'
    BY DEF SessionInv, Drained, TypeOK, Cached, service, proof, context, memory
  <1>2. Phase'
    BY SessionAssumption
       DEF SessionInv, Drained, Idle, Phase, Cached, Ending, ArenaPinned, service, proof, context,
           memory
  <1>3. Blank'
    BY DEF SessionInv, Drained, Blank, memory
  <1>4. ArenaPinned'
    BY DEF SessionInv, Drained, ArenaPinned, Phase, proof, memory
  <1>5. CacheSound'
    BY DEF SessionInv, Drained, CacheSound, Cached, memory
  <1>6. Clean'
    BY DEF SessionInv, Drained, Clean, service, memory
  <1> QED BY <1>1, <1>2, <1>3, <1>4, <1>5, <1>6 DEF SessionInv

LEMMA DestroyFunctionStep == ASSUME SessionInv, NEW ok \in BOOLEAN, DestroyFunction(ok) PROVE SessionInv'
  <1>1. TypeOK'
    BY SessionAssumption
       DEF SessionInv, DestroyFunction, Onward, TypeOK, Phase, service, proof, context, memory,
           control
  <1>2. Phase'
    BY DEF SessionInv, DestroyFunction, Onward, Phase, Cached, Ending, proof, context, memory
  <1>3. Blank'
    BY DEF SessionInv, DestroyFunction, Blank, memory
  <1>4. ArenaPinned'
    BY DEF SessionInv, DestroyFunction, ArenaPinned, proof, memory
  <1>5. CacheSound'
    BY DEF SessionInv, DestroyFunction, CacheSound, Cached, memory
  <1>6. Clean'
    BY DEF SessionInv, DestroyFunction, Onward, Clean, Phase, memory
  <1> QED BY <1>1, <1>2, <1>3, <1>4, <1>5, <1>6 DEF SessionInv

LEMMA FunctionsGoneStep == ASSUME SessionInv, FunctionsGone PROVE SessionInv'
  <1>1. TypeOK'
    BY DEF SessionInv, FunctionsGone, TypeOK, Phase, service, proof, context, memory
  <1>2. Phase'
    BY DEF SessionInv, FunctionsGone, Phase, Cached, Ending, service, proof, context, memory
  <1>3. Blank'
    BY DEF SessionInv, FunctionsGone, Blank, memory
  <1>4. ArenaPinned'
    BY DEF SessionInv, FunctionsGone, ArenaPinned, Phase, proof, memory
  <1>5. CacheSound'
    BY DEF SessionInv, FunctionsGone, CacheSound, Cached, memory
  <1>6. Clean'
    BY DEF SessionInv, FunctionsGone, Clean, service, memory
  <1> QED BY <1>1, <1>2, <1>3, <1>4, <1>5, <1>6 DEF SessionInv

LEMMA DestroyLoaderStep == ASSUME SessionInv, NEW ok \in BOOLEAN, DestroyLoader(ok) PROVE SessionInv'
  <1>1. TypeOK'
    BY DEF SessionInv, DestroyLoader, Onward, LoaderLeft, TypeOK, Phase, service, proof, context,
           memory
  <1>2. Phase'
    BY DEF SessionInv, DestroyLoader, Onward, LoaderLeft, Phase, Cached, Ending, proof, context,
           memory
  <1>3. Blank'
    BY DEF SessionInv, DestroyLoader, Blank, memory
  <1>4. ArenaPinned'
    BY DEF SessionInv, DestroyLoader, ArenaPinned, proof, memory
  <1>5. CacheSound'
    BY DEF SessionInv, DestroyLoader, CacheSound, Cached, memory
  <1>6. Clean'
    BY DEF SessionInv, DestroyLoader, Onward, Clean, memory
  <1> QED BY <1>1, <1>2, <1>3, <1>4, <1>5, <1>6 DEF SessionInv

LEMMA CloseContextStep == ASSUME SessionInv, NEW ok \in BOOLEAN, CloseContext(ok) PROVE SessionInv'
  <1>1. TypeOK'
    BY DEF SessionInv, CloseContext, Onward, TypeOK, Phase, service, proof, memory
  <1>2. Phase'
    BY DEF SessionInv, CloseContext, Onward, Phase, Cached, Ending, proof, memory
  <1>3. Blank'
    BY DEF SessionInv, CloseContext, Blank, memory
  <1>4. ArenaPinned'
    BY DEF SessionInv, CloseContext, ArenaPinned, proof, memory
  <1>5. CacheSound'
    BY DEF SessionInv, CloseContext, CacheSound, Cached, memory
  <1>6. Clean'
    BY DEF SessionInv, CloseContext, Onward, Clean, memory
  <1> QED BY <1>1, <1>2, <1>3, <1>4, <1>5, <1>6 DEF SessionInv

LEMMA AbortContextStep == ASSUME SessionInv, NEW ok \in BOOLEAN, AbortContext(ok) PROVE SessionInv'
  <1>1. TypeOK'
    <2>1. synced' \in BOOLEAN /\ stage' = 0 /\ next' = 1 /\ capture' = FALSE
      BY DEF AbortContext, AbortProof
    <2>2. 0 \in 0 .. LastStage /\ 1 \in 1 .. LastStage + 1
      BY SessionAssumption
    <2>3. Cached' = Cached
      BY DEF AbortContext, Cached
    <2> QED BY <2>1, <2>2, <2>3 DEF SessionInv, TypeOK, AbortContext, proof
  <1>2. Phase'
    BY DEF SessionInv, AbortContext, AbortProof, Phase, Cached, Ending, proof
  <1>3. Blank'
    BY DEF SessionInv, AbortContext, Blank
  <1>4. ArenaPinned'
    BY DEF SessionInv, AbortContext, ArenaPinned, Phase, proof
  <1>5. CacheSound'
    BY DEF SessionInv, AbortContext, CacheSound, Cached, Phase
  <1>6. Clean'
    BY DEF SessionInv, AbortContext, Clean
  <1> QED BY <1>1, <1>2, <1>3, <1>4, <1>5, <1>6 DEF SessionInv

LEMMA StutterStep == ASSUME SessionInv, UNCHANGED vars PROVE SessionInv'
  <1>1. TypeOK'
    BY DEF SessionInv, TypeOK, Cached, vars, service, proof, context, memory, control
  <1>2. Phase'
    BY DEF SessionInv, Phase, Cached, vars, service, proof, context, memory, control
  <1>3. Blank'
    BY DEF SessionInv, Blank, vars, memory
  <1>4. ArenaPinned'
    BY DEF SessionInv, ArenaPinned, vars, service, proof, memory
  <1>5. CacheSound'
    BY DEF SessionInv, CacheSound, Cached, vars, memory
  <1>6. Clean'
    BY DEF SessionInv, Clean, vars, service, memory, control
  <1> QED BY <1>1, <1>2, <1>3, <1>4, <1>5, <1>6 DEF SessionInv

-----------------------------------------------------------------------------
(* The invariant holds in every reachable state.                           *)
THEOREM Invariance == Spec => []SessionInv
  <1>1. ASSUME SessionInv, [Next]_vars PROVE SessionInv'
    <2>1. CASE Step
      BY <1>1, <2>1, EvictStep, DrainStep, PrepareFailsStep, AllocateStep, RegistryFullStep,
         DrainedStep, 
         FunctionsGoneStep, DestroyFunctionStep, DestroyLoaderStep, CloseContextStep,
         AbortContextStep DEF Step
    <2>2. CASE UNCHANGED vars
      BY <1>1, <2>2, StutterStep
    <2>3. CASE Next /\ ~Step
      BY <1>1, <2>3, OpenStep, PrepareHitStep, PrepareStep, BeginProofStep, AcquireArenaStep,
         BeginStageStep, LaunchStep, ReplayStep, BeginCaptureStep, FinishCaptureStep,
         CaptureFailsStep, AbortCaptureStep, EndStageStep, MarkProofCompleteStep,
         ProofFailsStep, FinishRetainedStep, AbortRetainedStep, CloseStep, AbortStep DEF Next
    <2> QED BY <1>1, <2>1, <2>2, <2>3
  <1> QED BY InitInv, <1>1, PTL DEF Spec

(* Every variable has its type in every reachable state.                   *)
THEOREM TypeCorrect == Spec => []TypeOK
  <1>1. SessionInv => TypeOK
    BY DEF SessionInv
  <1> QED BY Invariance, <1>1, PTL

(* The arena that a proof works on is never evicted or freed under it, and *)
(* nothing stays pinned after it (proof_transaction.zig, execution_cache   *)
(* acquire and release).                                                   *)
THEOREM PinsHold == Spec => []ArenaPinned
  <1>1. SessionInv => ArenaPinned
    BY DEF SessionInv
  <1> QED BY Invariance, <1>1, PTL

(* Whatever fails, the cache holds registered arenas of its own and graphs *)
(* that exist and were captured on them (execution_cache.zig).             *)
THEOREM CacheIsSound == Spec => []CacheSound
  <1>1. SessionInv => CacheSound
    BY DEF SessionInv
  <1> QED BY Invariance, <1>1, PTL

(* A runtime that says it is ready can begin a proof (process_runtime.zig  *)
(* isReady).                                                               *)
THEOREM ReadyIsAble == Spec => []ReadyMeansAble
  <1>1. SessionInv => ReadyMeansAble
    BY DEF SessionInv, Phase, ReadyMeansAble, IsReady, Quiet, Middle
  <1> QED BY Invariance, <1>1, PTL

(* A session that has ended, by a close or through an abort after any      *)
(* failure, leaves nothing behind but what a call into CUDA failed to free *)
(* (session.zig close and abort).                                          *)
THEOREM EndedIsEmpty == Spec => []EndsEmpty
  <1>1. SessionInv => EndsEmpty
    <2> SUFFICES ASSUME SessionInv, ~own PROVE
           /\ ~handle /\ ~loader /\ bufs = {} /\ Cached = {} /\ ~capture
           /\ clean => functions = 0 /\ graphs = {}
      BY DEF EndsEmpty
    <2>1. sess = "closed" /\ ~handle /\ ~loader /\ bufs = {} /\ Cached = {}
      BY DEF SessionInv, Phase
    <2>2. ~capture
      BY <2>1 DEF SessionInv, Phase, Middle
    <2>3. \A k \in Keys : entries[k].graphs = {}
      BY <2>1 DEF SessionInv, Blank, Cached, Empty
    <2> QED BY <2>1, <2>2, <2>3 DEF SessionInv, Clean
  <1> QED BY Invariance, <1>1, PTL

-----------------------------------------------------------------------------
(* Which entry is evicted. LastUsed: the cached keys are in one order, by  *)
(* their last use.                                                         *)

LastUsed ==
  /\ \A k \in Cached : <<k, k>> \notin older
  /\ \A k, c \in Cached : k # c => (<<k, c>> \in older <=> <<c, k>> \notin older)
  /\ \A a, b, c \in Cached : <<a, b>> \in older /\ <<b, c>> \in older => <<a, c>> \in older

LEMMA CacheMoves ==
  ASSUME SessionInv, [Next]_vars
  PROVE  \/ Cached' = Cached /\ older' = older
         \/ \E k \in Keys : Cached' = Cached \ {k} /\ older' = Forgotten(k)
         \/ \E k \in Keys : Cached' = Cached \union {k} /\ older' = Touched(k)
  <1>1. CASE UNCHANGED <<entries, older>>
    BY <1>1 DEF Cached
  <1>2. ASSUME NEW k \in Keys, PrepareHit(k)
        PROVE  Cached' = Cached \union {k} /\ older' = Touched(k)
    BY <1>2 DEF PrepareHit, Cached
  <1>3. ASSUME NEW k \in Keys, Evict(k) \/ Drain(k)
        PROVE  Cached' = Cached \ {k} /\ older' = Forgotten(k)
    <2>1. /\ Idle(k)
          /\ \E D \in Destroyed(k), f \in Freed(k) : DestroyEntry(k, D, f)
      BY <1>3 DEF Evict, Drain, Victim
    <2> QED BY <2>1, EntryGone DEF DestroyEntry
  <1>4. CASE Allocate
    <2>1. CASE UNCHANGED <<entries, older>>
      BY <1>1, <2>1
    <2>2. CASE ~UNCHANGED <<entries, older>>
      <3>1. /\ entries' = Installed(want, made + 1) /\ older' = Touched(want)
            /\ want \in Keys /\ made \in Nat
        BY <1>4, <2>2 DEF Allocate, SessionInv, Phase, TypeOK
      <3>2. /\ \A c \in Keys : c # want => entries'[c] = entries[c]
            /\ entries'[want].buf = made + 1
        BY <3>1 DEF Installed, SessionInv, TypeOK
      <3>3. Cached' = Cached \union {want}
        BY <3>1, <3>2 DEF Cached
      <3> QED BY <3>1, <3>3
    <2> QED BY <2>1, <2>2
  <1>5. ASSUME NEW k \in Keys, AcquireArena(k)
        PROVE  Cached' = Cached \union {k} /\ older' = Touched(k)
    <2>1. k \in Cached /\ entries[k].leases + 1 \in {0, 1}
      <3>1. k # key /\ k \in Cached
        BY <1>5, SessionAssumption DEF AcquireArena
      <3>2. entries[k].leases = 0
        BY <3>1 DEF SessionInv, ArenaPinned
      <3> QED BY <3>1, <3>2
    <2>2. \A c \in Keys : entries'[c].buf = entries[c].buf
      BY <1>5, <2>1, LeaseFacts DEF AcquireArena
    <2> QED BY <1>5, <2>1, <2>2 DEF AcquireArena, Cached
  <1>6. ASSUME NEW ok \in BOOLEAN, FinishRetained \/ AbortRetained(ok)
        PROVE  \/ Cached' = Cached /\ older' = older
               \/ \E k \in Keys : Cached' = Cached \union {k} /\ older' = Touched(k)
    <2>1. Release /\ UNCHANGED <<bufs, graphs, made>>
      BY <1>6 DEF FinishRetained, AbortRetained
    <2>2. Cached' = Cached
      BY <2>1, ReleaseStep
    <2>3. CASE key = NoKey
      BY <2>1, <2>2, <2>3 DEF Release
    <2>4. CASE key # NoKey
      <3>1. key \in Keys /\ key \in Cached
        BY <2>4 DEF SessionInv, TypeOK, ArenaPinned, Cached
      <3> QED BY <2>1, <2>2, <2>4, <3>1 DEF Release
    <2> QED BY <2>3, <2>4
  <1>7. ASSUME FinishCapture \/ \E g \in graphs : Replay(g)
        PROVE  Cached' = Cached /\ older' = older
    <2>1. CASE entries' = entries
      BY <1>7, <2>1 DEF Cached, FinishCapture, Replay
    <2>2. CASE entries' # entries
      <3>1. older' = older /\ \E G : entries' = Graphed(key, G)
        BY <1>7, <2>2 DEF FinishCapture, Replay, Dropped
      <3>2. \A c \in Keys : entries'[c].buf = entries[c].buf
        BY <3>1 DEF Graphed, SessionInv, TypeOK
      <3> QED BY <3>1, <3>2 DEF Cached
    <2> QED BY <2>1, <2>2
  <1>8. CASE Step
    BY <1>8, <1>1, <1>3, <1>4 DEF Step, PrepareFails, RegistryFull, Drained, FunctionsGone,
       DestroyFunction, DestroyLoader, CloseContext, AbortContext, memory
  <1>9. CASE Next /\ ~Step
    BY <1>9, <1>1, <1>2, <1>5, <1>6, <1>7
    DEF Next, Open, BeginProof, BeginStage, EndStage, MarkProofComplete, BeginCapture,
        CaptureFails, AbortCapture, ProofFails, Prepare, Launch, Close, Abort, memory
  <1> QED BY <1>1, <1>8, <1>9 DEF vars, memory

LEMMA LastUsedStep ==
  ASSUME SessionInv, LastUsed, [Next]_vars
  PROVE  LastUsed'
  <1>1. older \subseteq Cached \X Cached
    BY DEF SessionInv, TypeOK
  <1>2. CASE Cached' = Cached /\ older' = older
    BY <1>2 DEF LastUsed
  <1>3. ASSUME NEW k \in Keys, Cached' = Cached \ {k}, older' = Forgotten(k)
        PROVE  LastUsed'
    <2>1. \A a, b \in Cached' : <<a, b>> \in older' <=> <<a, b>> \in older
      BY <1>3 DEF Forgotten
    <2> QED BY <1>3, <2>1 DEF LastUsed
  <1>4. ASSUME NEW k \in Keys, Cached' = Cached \union {k}, older' = Touched(k)
        PROVE  LastUsed'
    <2>1. \A a, b \in Cached \ {k} : <<a, b>> \in older' <=> <<a, b>> \in older
      BY <1>4 DEF Touched, Forgotten
    <2>2. \A a \in Cached \ {k} : <<a, k>> \in older'
      BY <1>4 DEF Touched
    <2>3. \A a : <<k, a>> \notin older'
      BY <1>4 DEF Touched, Forgotten
    <2> QED BY <1>4, <2>1, <2>2, <2>3 DEF LastUsed
  <1> QED BY <1>2, <1>3, <1>4, CacheMoves

(* There is one entry to evict whenever there is an entry.                 *)
OneVictim ==
  pc = "preparing" /\ Cached # {} =>
    \E k \in Cached : \A c \in Keys : Victim(c) <=> c = k

(* A prepare that needs room finds the entry that was used least recently, *)
(* and finds only that one, whatever was used, evicted or lost in between  *)
(* (execution_cache.zig).                                                  *)
THEOREM EvictsLeastRecent == Spec => []OneVictim
  <1>1. Init => LastUsed
    BY DEF Init, LastUsed, Cached, Empty
  <1>2. ASSUME SessionInv, LastUsed, pc = "preparing", Cached # {}
        PROVE  \E k \in Cached : \A c \in Keys : Victim(c) <=> c = k
    <2> DEFINE Before(k) == {c \in Cached : <<c, k>> \in older}
               T == {Before(k) : k \in Cached}
    <2>1. T \subseteq FiniteSubsetsOf(Cached)
      <3>1. IsFiniteSet(Cached)
        BY <1>2, CachedFinite
      <3>2. \A k \in Cached : IsFiniteSet(Before(k))
        BY <3>1, FS_Subset
      <3> QED BY <3>2 DEF FiniteSubsetsOf
    <2>2. T # {}
      BY <1>2
    <2>3. IsWellFoundedOn(StrictSubsetOrdering(Cached), FiniteSubsetsOf(Cached))
      BY FS_StrictSubsetOrderingWellFounded
    <2> HIDE DEF T
    <2>4. PICK t \in T : \A s \in T : ~(<<s, t>> \in StrictSubsetOrdering(Cached))
      BY <2>1, <2>2, <2>3, WFMin
    <2>5. PICK k \in Cached : t = Before(k)
      BY <2>4 DEF T
    <2>6. ASSUME NEW c \in Cached, <<c, k>> \in older
          PROVE  FALSE
      <3>1. Before(c) \subseteq Before(k)
        BY <1>2, <2>6 DEF LastUsed
      <3>2. c \in Before(k) /\ c \notin Before(c)
        BY <1>2, <2>6 DEF LastUsed
      <3>3. Before(c) \subseteq Cached /\ Before(k) \subseteq Cached /\ Before(c) # Before(k)
        BY <3>2
      <3> HIDE DEF Before
      <3>4. <<Before(c), Before(k)>> \in StrictSubsetOrdering(Cached)
        BY <3>1, <3>3 DEF StrictSubsetOrdering
      <3>5. Before(c) \in T
        BY DEF T
      <3> QED BY <2>4, <2>5, <3>4, <3>5
    <2>7. \A c \in Cached : Idle(c)
      <3>1. key = NoKey
        BY <1>2 DEF SessionInv, Phase
      <3>2. NoKey \notin Keys
        BY SessionAssumption
      <3> QED BY <1>2, <3>1, <3>2 DEF Idle, Cached, SessionInv, ArenaPinned
    <2>8. Victim(k)
      BY <2>6, <2>7 DEF Victim
    <2>9. ASSUME NEW c \in Keys, Victim(c)
          PROVE  c = k
      BY <1>2, <2>6, <2>7, <2>9 DEF Victim, Idle, LastUsed
    <2> QED BY <2>8, <2>9
  <1>3. SessionInv /\ LastUsed => OneVictim
    BY <1>2 DEF OneVictim
  <1>4. SessionInv /\ LastUsed /\ [Next]_vars => LastUsed'
    BY LastUsedStep
  <1> QED BY <1>1, <1>3, <1>4, Invariance, PTL DEF Spec

-----------------------------------------------------------------------------
(* Why a call returns: what CallsReturn says, but for fairness.            *)

CallRank ==
  CASE pc = "client"    -> 0
    [] pc = "preparing" -> 1 + Cardinality(Cached)
    [] pc = "draining"  -> 4 + functions + Cardinality(Cached)
    [] pc = "functions" -> 3 + functions
    [] pc = "loader"    -> 2
    [] pc = "context"   -> 1

CallsAdvance == [][pc # "client" => CallRank' < CallRank]_vars

CallRankBounded == CallRank \in 0 .. 4 + MaxFunctions + Capacity

RankFacts ==
  /\ pc = "client"    => CallRank = 0
  /\ pc = "preparing" => CallRank = 1 + Cardinality(Cached)
  /\ pc = "draining"  => CallRank = 4 + functions + Cardinality(Cached)
  /\ pc = "functions" => CallRank = 3 + functions
  /\ pc = "loader"    => CallRank = 2
  /\ pc = "context"   => CallRank = 1

LEMMA RankByPc == RankFacts
  BY DEF RankFacts, CallRank

(* While a call is in progress, each step, those that fail included, is    *)
(* one of the call and brings its return nearer: an entry evicted is not   *)
(* met again, and an ending never goes back (execution_cache.zig,          *)
(* session.zig close and abort).                                           *)
THEOREM CallsComeBack == Spec => CallsAdvance /\ []CallRankBounded
  <1>1. ASSUME SessionInv
        PROVE  CallRankBounded
    <2>1. /\ Cardinality(Cached) \in Nat /\ Cardinality(Cached) <= Capacity
          /\ functions \in 0 .. MaxFunctions
          /\ pc \in {"client", "preparing", "draining", "functions", "loader", "context"}
          /\ Capacity \in Nat /\ MaxFunctions \in Nat
      BY <1>1, CachedFinite, SessionAssumption DEF SessionInv, TypeOK, CacheSound
    <2> QED BY <2>1, RankByPc DEF CallRankBounded, RankFacts
  <1>2. SessionInv => Cardinality(Cached) \in Nat
    BY CachedFinite
  <1>3. (SessionInv => Cardinality(Cached) \in Nat)'
    BY <1>2, PTL
  <1>4. RankFacts /\ RankFacts'
    BY RankByPc, PTL
  <1>5. ASSUME SessionInv, SessionInv', Next, pc # "client"
        PROVE  CallRank' < CallRank
    <2>1. /\ Cardinality(Cached) \in Nat /\ Cardinality(Cached)' \in Nat
          /\ functions \in Nat /\ functions' \in Nat
      BY <1>5, <1>2, <1>3 DEF SessionInv, TypeOK
    <2>2. own
      BY <1>5 DEF SessionInv, Phase
    <2>3. Step
      BY <1>5, <2>2 DEF Next, Open, BeginProof, BeginStage, EndStage, MarkProofComplete,
         FinishRetained, BeginCapture, FinishCapture, CaptureFails, AbortCapture, ProofFails,
         PrepareHit, Prepare, AcquireArena, Launch, Replay, AbortRetained, Close, Abort,
         Calling, Proving
    <2>4. ASSUME NEW k \in Keys, Evict(k) \/ Drain(k)
          PROVE  CallRank' < CallRank
      <3>1. /\ Idle(k) /\ functions' = functions
            /\ \E D \in Destroyed(k), f \in Freed(k) : DestroyEntry(k, D, f)
            /\ \/ pc = "preparing" /\ pc' \in {"preparing", "client"}
               \/ pc = "draining" /\ pc' = "draining"
        BY <2>4 DEF Evict, Drain, Victim, Return, service
      <3>2. k \in Cached /\ Cached' = Cached \ {k}
        BY <1>5, <3>1, EntryGone DEF Idle
      <3>3. Cardinality(Cached)' = Cardinality(Cached) - 1
        BY <1>5, <3>2, CachedFinite, FS_RemoveElement
      <3> QED BY <2>1, <3>1, <3>3, <1>4 DEF RankFacts
    <2>5. CASE PrepareFails \/ Allocate \/ RegistryFull
      BY <2>1, <2>5, <1>4 DEF RankFacts, PrepareFails, Allocate, RegistryFull, Return
    <2>6. CASE Drained \/ FunctionsGone
      <3>1. functions' = functions
        BY <2>6 DEF Drained, FunctionsGone, service
      <3>2. \/ pc = "draining" /\ pc' \in {"client", "functions"}
            \/ pc = "functions" /\ pc' = "loader"
        BY <2>6 DEF Drained, FunctionsGone
      <3> QED BY <2>1, <3>1, <3>2, <1>4 DEF RankFacts
    <2>7. ASSUME NEW ok \in BOOLEAN, DestroyFunction(ok)
          PROVE  CallRank' < CallRank
      <3>1. /\ pc = "functions" /\ functions > 0
            /\ \/ pc' \in {"client", "loader"}
               \/ pc' = "functions" /\ functions' = functions - 1
        BY <2>7 DEF DestroyFunction, Onward
      <3> QED BY <2>1, <3>1, <1>4 DEF RankFacts
    <2>8. ASSUME NEW ok \in BOOLEAN, DestroyLoader(ok) \/ CloseContext(ok) \/ AbortContext(ok)
          PROVE  CallRank' < CallRank
      <3>1. \/ pc = "loader" /\ pc' \in {"client", "context"}
            \/ pc = "context" /\ pc' = "client"
        BY <2>8 DEF DestroyLoader, CloseContext, AbortContext, Onward
      <3> QED BY <3>1, <1>4 DEF RankFacts
    <2> QED BY <2>3, <2>4, <2>5, <2>6, <2>7, <2>8 DEF Step
  <1>6. ASSUME SessionInv, SessionInv', [Next]_vars
        PROVE  [pc # "client" => CallRank' < CallRank]_vars
    BY <1>5, <1>6
  <1> QED BY <1>1, <1>6, Invariance, PTL DEF Spec, CallsAdvance

================================================================================
