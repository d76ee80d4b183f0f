---------------------------- MODULE MetalSession ----------------------------
(* The persistent Metal prover session (tools/metal_prover_session): one    *)
(* process that proves requests one at a time. It keeps three caches from   *)
(* one request to the next: host geometry (state.zig), arena plans and, of  *)
(* the last plan only, the resident state on the device (metal_arena_plan/  *)
(* main.zig). A request borrows from them, commits what it made once its    *)
(* proof is verified, and publishes the proof and its report; after a       *)
(* request that fails the process poisons what was borrowed and ends.       *)
(* Another process may take an output path meanwhile; anyone may kill it.   *)
(* An object is named by the number of the request that made it.            *)
EXTENDS Integers, Sequences, FiniteSets

CONSTANTS
  Kinds,        \* requests that differ in their artifacts or row geometry
  Layouts,      \* identities of a prepared state: its key and its plan
  NoLayout,     \* no identity
  Layout,       \* the one a kind of request needs
  Capacity,     \* entries of the geometry caches (4 in the code)
  MaxRequests   \* bound: requests of one session

ASSUME SessionAssumption ==
  /\ Layout \in [Kinds -> Layouts] /\ NoLayout \notin Layouts
  /\ Capacity \in Nat \ {0} /\ MaxRequests \in Nat

VARIABLES
  pc,        \* where the process is
  asked,     \* the kind of each request so far
  hosts,     \* PreparedHostGeometryCache.entries
  hostUse,   \* its active transaction
  plans,     \* PreparedGeometryCache.entries
  planUse,   \* its active transaction
  own,       \* the plan that runOne still owns
  status,    \* PreparedStateAdmission.status
  ident,     \* PreparedStateAdmission.identity
  arena,     \* resident_arena
  snapshot,  \* the request that captured it
  recipes,   \* the arena the recipes are bound to
  live,      \* how often an object was made less how often it was freed
  verified,  \* requests whose proof was verified
  outputs,   \* what is at the two output paths of the request
  taken,     \* the output paths that another process took
  stuck,     \* the proof could not be withdrawn
  said       \* the frame the client got for the request

geometry == <<hosts, hostUse, plans, planUse, own>>
state == <<status, ident, arena, snapshot, recipes>>
files == <<outputs, taken, stuck>>
vars == <<pc, asked, geometry, state, live, verified, files, said>>

Paths == {"proof", "report"}
Numbers == 1 .. MaxRequests
NoOne == 0
Objects == {"host", "plan", "arena"} \X Numbers
Number == Len(asked)
Kind == asked[Number]
Identity == Layout[Kind]

-----------------------------------------------------------------------------
(* A cache of geometry: entries with the request that made them and the     *)
(* one that last committed them (the clock), and a transaction.             *)

Idle == [st |-> "none", made |-> NoOne]
Hit(e) == [st |-> "hit", made |-> e.made]
Pending == [st |-> "pending", made |-> Number]

Find(entries, k) == {e \in entries : e.key = k}
Victims(entries) ==
  IF Cardinality(entries) < Capacity THEN {}
  ELSE {e \in entries : \A d \in entries : e.used <= d.used}

(* commitAssumeValid: a hit is touched, what is pending takes a free entry  *)
(* or the least recently used one.                                          *)
Committed(entries, use, k) ==
  (IF use.st = "hit" THEN entries \ Find(entries, k) ELSE entries \ Victims(entries))
    \union {[key |-> k, made |-> use.made, used |-> Number]}

(* What is freed: entries that go, and what is pending.                     *)
Evicted(label, entries, use) ==
  IF use.st # "pending" THEN {}
  ELSE {<<label, e.made>> : e \in Victims(entries)}
Dropped(label, use) == IF use.st = "pending" THEN {<<label, use.made>>} ELSE {}

Made(o) == [live EXCEPT ![o] = @ + 1]
Freed(was, gone) == [o \in Objects |-> was[o] - (IF o \in gone THEN 1 ELSE 0)]

-----------------------------------------------------------------------------
(* Ends of a request.                                                       *)

BugUnstage == planUse
(* poisonActive leaves no transaction behind.                               *)
Unstage == Idle

ResidentArena == IF arena = NoOne THEN {} ELSE {<<"arena", arena>>}
OwnPlan == IF own = NoOne THEN {} ELSE {<<"plan", own>>}

(* The errdefers of runOne and proveRequest: poison of the state with the   *)
(* plan it borrowed, of the host geometry that is pending, and the plan     *)
(* that was not handed over.                                                *)
Poison ==
  /\ status' = "poisoned" /\ ident' = NoLayout
  /\ arena' = NoOne /\ snapshot' = NoOne /\ recipes' = NoOne
  /\ plans' = IF planUse.st = "hit" THEN plans \ Find(plans, Identity) ELSE plans
  /\ planUse' = Unstage /\ hostUse' = Idle /\ own' = NoOne
  /\ live' = Freed(live,
       ResidentArena \union OwnPlan \union Dropped("plan", planUse) \union Dropped("host", hostUse)
       \union (IF planUse.st = "hit" THEN {<<"plan", planUse.made>>} ELSE {}))
  /\ UNCHANGED hosts

Borrowed == {"finding", "placing", "preparing", "proving", "checking", "publishing"}

(* Any call fails: geometry or a plan that cannot be built, no memory on    *)
(* the device, a proof that is not verified, a report that cannot be        *)
(* written, an output that is there.                                        *)
Fail ==
  /\ pc \in Borrowed /\ Poison
  /\ pc' = "failed"
  /\ UNCHANGED <<asked, verified, files, said>>

(* Before anything is borrowed.                                             *)
Refuse ==
  /\ pc = "admitting"
  /\ pc' = "failed"
  /\ UNCHANGED <<asked, geometry, state, live, verified, files, said>>

(* The error frame, or none if the client is gone.                          *)
ErrorFrame ==
  /\ pc = "failed"
  /\ said' \in {"error", "none"}
  /\ pc' = "leaving"
  /\ UNCHANGED <<asked, geometry, state, live, verified, files>>

Held(o) ==
  LET holds(b) == IF b THEN 1 ELSE 0
      in(entries, label) == Cardinality({e \in entries : o = <<label, e.made>>})
  IN  in(hosts, "host") + in(plans, "plan")
      + holds(o \in Dropped("host", hostUse)) + holds(o \in Dropped("plan", planUse))
      + holds(o \in OwnPlan) + holds(o \in ResidentArena)

(* The deferred deinits free what every owner holds.                        *)
Leave ==
  /\ pc = "leaving"
  /\ hosts' = {} /\ plans' = {} /\ hostUse' = Idle /\ planUse' = Idle /\ own' = NoOne
  /\ arena' = NoOne /\ snapshot' = NoOne /\ recipes' = NoOne
  /\ live' = [o \in Objects |-> live[o] - Held(o)]
  /\ pc' = "closed"
  /\ UNCHANGED <<asked, status, ident, verified, files, said>>

-----------------------------------------------------------------------------
(* A request.                                                               *)

(* parseRequest: the outputs must be absent.                                *)
Receive(k) ==
  /\ pc = "idle" /\ Number < MaxRequests
  /\ asked' = Append(asked, k)
  /\ outputs' = [p \in Paths |-> "none"] /\ taken' = {} /\ stuck' = FALSE /\ said' = "none"
  /\ pc' = "admitting"
  /\ UNCHANGED <<geometry, state, live, verified>>

(* A shutdown frame, the end of the input, a frame that does not parse.     *)
Stop ==
  /\ pc = "idle"
  /\ pc' = "leaving"
  /\ UNCHANGED <<asked, geometry, state, live, verified, files, said>>

(* begin of the host geometry: a hit, or geometry read from the artifacts.  *)
AcquireHost ==
  /\ pc = "admitting"
  /\ \/ \E e \in Find(hosts, Kind) : hostUse' = Hit(e) /\ UNCHANGED live
     \/ /\ Find(hosts, Kind) = {}
        /\ hostUse' = Pending /\ live' = Made(<<"host", Number>>)
  /\ pc' = "finding"
  /\ UNCHANGED <<asked, hosts, plans, planUse, own, state, verified, files, said>>

(* findCanonicalPlan, or a plan that runOne builds and owns.                *)
FindPlan ==
  /\ pc = "finding"
  /\ \/ \E e \in Find(plans, Identity) : planUse' = Hit(e) /\ UNCHANGED <<own, live>>
     \/ /\ Find(plans, Identity) = {}
        /\ own' = Number /\ live' = Made(<<"plan", Number>>) /\ UNCHANGED planUse
  /\ pc' = "placing"
  /\ UNCHANGED <<asked, hosts, hostUse, plans, state, verified, files, said>>

BugReusable == status = "ready" /\ planUse.st = "hit"
(* PreparedStateAdmission.begin: what is ready is of the same identity.     *)
Reusable == status = "ready" /\ planUse.st = "hit" /\ ident = Identity

(* begin on a hit: the snapshot is restored into the arena.                 *)
Restore ==
  /\ pc = "placing" /\ Reusable
  /\ snapshot # NoOne /\ arena # NoOne
  /\ status' = "borrowed"
  /\ pc' = "preparing"
  /\ UNCHANGED <<asked, geometry, ident, arena, snapshot, recipes, live, verified, files, said>>

BugHandedOver == own
(* stageMiss: the cache owns the plan now.                                  *)
HandedOver == NoOne

(* begin on a miss: the resident state of another plan goes, the plan is    *)
(* handed over, an arena of its size is allocated.                          *)
Place ==
  /\ pc = "placing" /\ ~Reusable
  /\ status' = "pending" /\ ident' = Identity
  /\ snapshot' = NoOne /\ recipes' = NoOne /\ arena' = Number
  /\ planUse' = IF planUse.st = "hit" THEN planUse ELSE Pending
  /\ own' = HandedOver
  /\ live' = Freed(Made(<<"arena", Number>>), ResidentArena)
  /\ pc' = "preparing"
  /\ UNCHANGED <<asked, hosts, hostUse, plans, verified, files, said>>

(* The recipes are installed and the snapshot is captured.                  *)
Install ==
  /\ pc = "preparing" /\ status = "pending"
  /\ snapshot = NoOne /\ recipes = NoOne
  /\ recipes' = arena /\ snapshot' = Number
  /\ pc' = "proving"
  /\ UNCHANGED <<asked, geometry, status, ident, arena, live, verified, files, said>>

(* The recipes are borrowed; they must be there and of this arena.          *)
Borrow ==
  /\ pc = "preparing" /\ status = "borrowed"
  /\ recipes # NoOne /\ recipes = arena
  /\ pc' = "proving"
  /\ UNCHANGED <<asked, geometry, state, live, verified, files, said>>

(* The runner verified its proof and the Rust verifier accepted it; a copy  *)
(* is staged; the state and its plan are committed.                         *)
CommitState ==
  /\ pc = "proving" /\ status \in {"pending", "borrowed"}
  /\ verified' = verified \union {Number}
  /\ status' = "ready"
  /\ plans' = Committed(plans, planUse, Identity)
  /\ planUse' = Idle
  /\ live' = Freed(live, Evicted("plan", plans, planUse))
  /\ pc' = "checking"
  /\ UNCHANGED <<asked, hosts, hostUse, own, ident, arena, snapshot, recipes, files, said>>

(* The report is staged; both outputs must be absent.                       *)
CheckAbsent ==
  /\ pc = "checking" /\ outputs = [p \in Paths |-> "none"]
  /\ pc' = "publishing"
  /\ UNCHANGED <<asked, geometry, state, live, verified, files, said>>

BugLink(p) == outputs' = [outputs EXCEPT ![p] = "mine"]
(* publishExclusive: link refuses a path that is there.                     *)
Link(p) == outputs[p] = "none" /\ outputs' = [outputs EXCEPT ![p] = "mine"]

LinkProof ==
  /\ pc = "publishing" /\ Link("proof")
  /\ pc' = "linking"
  /\ UNCHANGED <<asked, geometry, state, live, verified, taken, stuck, said>>

LinkReport ==
  /\ pc = "linking" /\ Link("report")
  /\ pc' = "finishing"
  /\ UNCHANGED <<asked, geometry, state, live, verified, taken, stuck, said>>

(* The report cannot be linked: the proof is deleted again, if it can be.   *)
Withdraw ==
  /\ pc = "linking"
  /\ \/ outputs' = [outputs EXCEPT !["proof"] = "none"] /\ stuck' = FALSE
     \/ UNCHANGED outputs /\ stuck' = TRUE
  /\ Poison
  /\ pc' = "failed"
  /\ UNCHANGED <<asked, verified, taken, said>>

(* commitAssumeValid of the host geometry.                                  *)
Finish ==
  /\ pc = "finishing"
  /\ hosts' = Committed(hosts, hostUse, Kind)
  /\ hostUse' = Idle
  /\ live' = Freed(live, Evicted("host", hosts, hostUse))
  /\ pc' = "answering"
  /\ UNCHANGED <<asked, plans, planUse, own, state, verified, files, said>>

(* The result frame; without a client the process ends.                     *)
Answer ==
  /\ pc = "answering"
  /\ \/ said' = "result" /\ pc' = "idle"
     \/ UNCHANGED said /\ pc' = "leaving"
  /\ UNCHANGED <<asked, geometry, state, live, verified, files>>

-----------------------------------------------------------------------------
(* The others.                                                              *)

Running == pc \notin {"closed", "dead"}

(* Another process makes a file at an output path of the request.           *)
Take(p) ==
  /\ Running /\ pc # "idle" /\ outputs[p] = "none"
  /\ outputs' = [outputs EXCEPT ![p] = "other"] /\ taken' = taken \union {p}
  /\ UNCHANGED <<pc, asked, geometry, state, live, verified, stuck, said>>

Kill ==
  /\ Running
  /\ pc' = "dead"
  /\ UNCHANGED <<asked, geometry, state, live, verified, files, said>>

-----------------------------------------------------------------------------
Init ==
  /\ pc = "idle" /\ asked = << >>
  /\ hosts = {} /\ plans = {} /\ hostUse = Idle /\ planUse = Idle /\ own = NoOne
  /\ status = "empty" /\ ident = NoLayout
  /\ arena = NoOne /\ snapshot = NoOne /\ recipes = NoOne
  /\ live = [o \in Objects |-> 0] /\ verified = {}
  /\ outputs = [p \in Paths |-> "none"] /\ taken = {} /\ stuck = FALSE /\ said = "none"

Next ==
  \/ \E k \in Kinds : Receive(k)
  \/ Stop \/ AcquireHost \/ FindPlan \/ Restore \/ Place \/ Install \/ Borrow
  \/ CommitState \/ CheckAbsent \/ LinkProof \/ LinkReport \/ Withdraw \/ Finish \/ Answer
  \/ Refuse \/ Fail \/ ErrorFrame \/ Leave
  \/ \E p \in Paths : Take(p)
  \/ Kill

Spec == Init /\ [][Next]_vars

-----------------------------------------------------------------------------
(* Properties.                                                              *)

Entries(keys) == [key : keys, made : Numbers, used : Numbers]
Uses == [st : {"none", "hit", "pending"}, made : Numbers \union {NoOne}]

(* Every variable has its type.                                             *)
TypeOK ==
  /\ pc \in Borrowed \union {"idle", "admitting", "linking", "finishing", "answering", "failed",
                             "leaving", "closed", "dead"}
  /\ asked \in Seq(Kinds) /\ Number <= MaxRequests
  /\ hosts \subseteq Entries(Kinds) /\ plans \subseteq Entries(Layouts)
  /\ hostUse \in Uses /\ planUse \in Uses /\ own \in {NoOne, Number}
  /\ status \in {"empty", "pending", "ready", "borrowed", "poisoned"}
  /\ ident \in Layouts \union {NoLayout}
  /\ {arena, snapshot, recipes} \subseteq Numbers \union {NoOne}
  /\ live \in [Objects -> Int] /\ verified \subseteq Numbers
  /\ outputs \in [Paths -> {"none", "mine", "other"}] /\ taken \subseteq Paths
  /\ stuck \in BOOLEAN /\ said \in {"none", "result", "error"}

(* "Failed work must not leave a cache entry or artifact that later appears *)
(* valid" (CONTRIBUTING.md:600): every plan and host geometry in a cache,   *)
(* and the resident state that a request may be given, comes from a         *)
(* verified request of the same identity; a request that borrows has the    *)
(* arena, snapshot, recipes and plan of one and the same identity, its own. *)
OnlyVerifiedReused ==
  /\ \A e \in hosts : e.made \in verified /\ asked[e.made] = e.key
  /\ \A e \in plans : e.made \in verified /\ Layout[asked[e.made]] = e.key
  /\ status \in {"ready", "borrowed"} /\ arena # NoOne =>
       /\ arena \in verified /\ snapshot = arena /\ recipes = arena
       /\ Layout[asked[arena]] = ident
  /\ status = "borrowed" /\ pc \in {"preparing", "proving"} =>
       /\ ident = Identity
       /\ planUse.st = "hit" /\ Layout[asked[planUse.made]] = Identity
  /\ status = "pending" => arena = Number

(* The caches, the transactions and runOne hand geometry, plans and arenas  *)
(* to each other; whatever fails when, each object made has one owner until *)
(* it is freed, is freed once, and is freed when the process has ended.     *)
OneOwner ==
  pc # "dead" => \A o \in Objects : live[o] = Held(o) /\ Held(o) \in {0, 1}

(* What the frames and the two links let the client rely on: a result means *)
(* that both outputs are this request's, an error that neither is, but for  *)
(* a proof that could not be withdrawn; a report is never there without its *)
(* proof, wherever the process is killed; no file of another process is     *)
(* replaced.                                                                *)
OutputsHonest ==
  /\ said = "result" => outputs = [p \in Paths |-> "mine"]
  /\ said = "error" => outputs["report"] # "mine" /\ (outputs["proof"] = "mine" => stuck)
  /\ outputs["report"] = "mine" => outputs["proof"] = "mine"
  /\ \A p \in taken : outputs[p] = "other"
=============================================================================
