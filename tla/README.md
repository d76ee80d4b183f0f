# stwo-zig: verification project

TLA+ models, TLC checks and TLAPS proofs for the parts of stwo-zig (a
circle-STARK prover and verifier in Zig) whose correctness is a matter of
*order*: who holds what, when, and what is left when a step fails. The
arithmetic of the prover is not here; its tests and the Rust reference settle
that. What tests hardly reach is the machinery around it: a proof queue fed by
many threads, a commitment scheme that builds one of its trees on a worker
thread and must leave the transcript as if it had not, a Metal runtime shared
by everybody and shut down by anybody, a CUDA session that has to clean up
whatever call fails, output files that several runs may want, device arenas in
which values take turns at the same addresses, and a Metal prover that keeps
plans and device state from one request to the next.

Paths below are relative to `src/src/`.

## Inventory

### Components and how they interact

    products, integrations (command lines, services, drivers)
        |  requests                          |  columns, data to mix
        v                                    v
    RequestService  --execute-->  driver   CommitmentScheme --worker--> Pending slot
        |  close/abort              |        |  buffers, trees
        v                           v        v
    Cuda ProcessRuntime -- Session/Context   Metal shared_runtime

    products --proof, report--> OutputTransaction --links--> file system, other runs

    requests --> Metal prover session --plans, resident state--> arena plan --> EpochRunner
                       |                                                          |  hooks
                       +--proof, report, frames--> files, client            RecoveryEngine

| component | state it keeps | operations | hard behaviour | what makes it correct | module |
|---|---|---|---|---|---|
| proof request service (`prover/execution/request_service*.zig`) | ring of slots, telemetry, ownership of one runtime, generation | submit, pumpOne, publishNext, cancel, abortQueued, close, abortAll, reset, deinit | submissions while a proof runs without the lock; poisoning; clock that goes back | FIFO publication, nothing lost or freed twice, accounts exact | `RequestService` |
| commitment scheme with deferred first tree (`prover/pcs/`) | trees, one pending build, channel | commit (five paths), flush, roots, prove, deinit | worker thread; root owed to the transcript; nested append; three armed errdefers, and exits before any | transcript as if sequential; one join; storage given back once | `DeferredCommit` |
| shared Metal runtime (`backends/metal/shared_runtime.zig`, ownership in `commit_backend.zig`, `merkle_tree.zig`) | RwLock, runtime, identity, six atomics | acquire, initialize, lease end, snapshot, shutdown, make/destroy objects | objects outlive leases; upgrade of the lock; racing builders | nobody's runtime disappears | `SharedRuntime` |
| CUDA process runtime (`backends/cuda/runtime/`) | registry flag, session state, context (stream, stage, allocations), LRU cache of arenas and graphs, functions, loader | open, prepare, beginProof .. finishRetained, capture/replay, abortRetained, close, abort | any call can fail; eviction; endings that stop half-way | no dangling arena or graph, an ended session leaves nothing | `CudaSession` |
| output transaction (`interop/output_transaction.zig`, `atomic_file.zig`, `integrations/native/transaction.zig`) | files | prepare, publish, roll back | several processes; crash between two links | no proof without its report; an error leaves nothing | `OutputTransaction` |
| resident arenas (`backend/arena_plan.zig`, `backend/recovery.zig`, `backends/cuda/runtime/arena.zig`) | the plan; of each buffer: state, spill entry, last tick of its recipe | build, validate, projectThroughTick, Plan.init, begin, end, spill, restore, group recipes | boundary arithmetic; buffers that take turns; hooks that fail half-way | what is needed together lies apart; a live buffer holds its value | `LowestFit`, `ArenaPlacement`, `ArenaEpochs` |
| persistent Metal prover session (`tools/metal_prover_session/`, `tools/metal_arena_plan/main.zig`) | geometry cache, plan cache, one resident state, their transactions | receive, acquire, restore, install, borrow, commit, poison, publish, answer | failure anywhere in a request; state of an earlier request reused; kill between two links | only verified state of the same identity is reused; one owner each; honest outputs | `MetalSession` |
| prover session, twiddle source (`prover/session.zig`, `prover/poly/twiddle_source.zig`) | cached twiddles, counters | get, extend | shared with the commit worker | a borrowed tower stays valid | not modelled: left in the plan |
| work pool, task graph, FFT pool (`prover/*.zig`) | one global pool; task states | acquire, execute | failed initialization is final | every task runs once | not modelled: thin wrappers over `std.Thread.Pool` |
| proof programs (`backend/proof_program.zig`) | none | validate | - | a valid list of commands | not modelled: pure, covered by its tests |
| core (`core/`): fields, circle, FFT, channel, FRI, PCS verifier, vcs | values | pure functions | - | algebra | not modelled: data, not behaviour |
| prover kernels (`prover/fri.zig`, `lookups`, `air`, `poly`, `vcs_lifted`) | buffers | pure transformations | fork/join inside one call | algebra | not modelled |
| CPU, Metal and CUDA kernels; vendored crates | buffers | kernels | ownership on error paths | - | not modelled; who owns the Metal objects is in `SharedRuntime` |
| RISC-V and Cairo frontends | traces, claims | interpret, adapt, generate | sequential | constraints | not modelled |
| integrations, products, interop formats, examples, tools, tests, scripts | - | glue, encoders, commands | - | - | not modelled; where they call a modelled part, that part's environment is taken from them |

### Hazards

`PROJECT.json` lists them at their lines with the properties that would notice.
The themes: a pointer kept over an unlocked stretch (`pumpOne`), order restored
by whoever comes next (`appendCommittedTree` resolving a deferred tree), counts
that stand for objects (resident resources), cleanups that stop or go on
after an error (`close` against `abort`), memory that several values share in
turn (`begin`, `end`, group recipes), and what one request leaves for the next
(plans, resident state, the ownership of both on each error path).

## Plan

Order of work, the most important behaviour first.

1. `ProofQueue` (abstract) and `RequestService`. Done: checked, safety and
   refinement proved, the byte sums of the telemetry included.
2. `SequentialCommit` (abstract) and `DeferredCommit`. Done: checked, safety
   and refinement proved.
3. `SharedRuntime`. Done: checked, safety and freedom from deadlock proved.
4. `CudaSession`. Done: checked, safety and the rank of its calls proved.
5. `AtomicPublication` (abstract) and `OutputTransaction`. Done: checked, safety
   and refinement proved.
6. `LowestFit` (abstract), `ArenaPlacement` and, on top of it, `ArenaEpochs`.
   Done: checked, safety and refinement proved.
7. `MetalSession`. Done: checked, safety proved.
8. Left: a composition of `RequestService` with `CudaSession`, the service's
   runtime as an INSTANCE of the session, so that poisoning, close and reset are
   seen end to end; then the twiddle source under the commit worker.

Every module that is to be proved about has its parameters as constants with
named assumptions, one action per operation, invariants as conjunctions of named
parts and no recursive operator.

## Modules and the code

**`RequestService`** Slots, ring, telemetry and runtime ownership are the fields
of `ServiceFor` and `Slot`. A public operation holds `queue_mutex` and is one
action (`deinit` takes no lock: it is the owner's, after every submitter is
gone). `pumpOne` is two: `Start` takes the oldest queued slot, the lock is
released for `Workload.execute`, and `Settle` (`Complete`, `FailRequest`,
`Poison`) takes it again; only submissions fall in between, because all other
operations belong to the owner thread, which is busy. Clock readings are an
input to every action that reads the clock. `requestAt` and `proofAt` record who
holds the request and the proof of a ticket; they have values for "freed twice"
that the code should never reach.
`ProofQueue` is what callers are promised, without ring, clock, bytes or lock.
The refinement reads a ticket's verdict from its publication, or from its slot.

**`DeferredCommit`** The main thread is a program counter, its calls those of
`Scheme` and `TreeBuilder`; the worker is `worker`; `slot` is the mailbox
between them. A commit's column storage is one resource: `freed` counts its
releases, `armed` the errdefers that would release it. A build that fails takes
one of three `Exits`: it leaves the release to what is armed, has released it
already (`twice`), or has lost a part (`lost`) that no errdefer knows of. A part
is lost in three places: on the streaming path, before the order is allocated,
no errdefer is armed yet; the errdefer on the input no longer covers values that
have become a coefficient; and the errdefer on the result does not yet cover a
coefficient that could not be noted. `SequentialCommit`
commits every tree at once; the mapping counts a tree in flight as committed and
its root as mixed. `Abandon` (only in `AbandoningSpec`) is the caller that
returns on an error without `Scheme.deinit`.

**`SharedRuntime`** Each thread is in one call at a time. Acquiring, upgrading,
counting, snapshot and shutdown are separate steps wherever another thread can
get in. Objects are made under a lease, counted, handed to an owner and later
destroyed without one: object and count in two steps, as in the code.

**`CudaSession`** One thread calls. A call is an action, except that preparing
and ending take one action per cache entry and per function, so that they can
stop at each. Every call into CUDA may fail; the outcome is chosen by the
environment (`ok`, or the set of graphs that could be destroyed). `clean` says
that none has failed yet since the session was opened. Allocations have
numbers (the generation), graphs are an allocation and a stage. The stages
between ingress and proof assembly all behave alike, so `LastStage` may be 3.

**`ArenaPlacement`** One model of two planners, which place buffers one after the
other in a fixed order and search for an offset differently: Metal (`build`,
and `projectThroughTick`, which `tools/metal_arena_plan/main.zig` asks for at
line 2696) sorts the conflicting ranges and sweeps them once, CUDA (`Plan.init`)
rescans all placements until none is in the way. A step is one range of the
sweep or one rescan. Admission, overflow (trapped or wrapping, `checked`), the
budget and the final `validate` are steps too. The live ranges of a buffer are
a set. `LowestFit` is what both promise: each buffer gets, in one step, the
lowest aligned offset that is free of those placed before it.

**`ArenaEpochs`** runs the schedule of a finished Metal plan: `EpochRunner` with
the `RecoveryEngine` and its group recipes as hooks, tick by tick, any hook
failing anywhere. A value is the number of times it was written in this run;
memory holds that number or `Junk`; writing a buffer turns all that overlap it
to junk. A group is the recomputed buffers with the same live ranges. A spill
that stops half-way leaves `Torn` bytes, which a restore's checksum finds;
checksums do not collide. The hooked runner is exercised by tests and
benchmarks; the production path calls the recipe's `execute` itself.

**`MetalSession`** One process, one request at a time: its program counter goes
from frame to frame through `acquire`, `runOne`, the proof, the verification, the
two links and the answer, and any of these may fail. Plans, host geometries and
arenas are named by the request that made them. A request commits at most once,
so the LRU clock is the number of the request. `live` counts what was made
against what was freed; `Held` counts the owners from the code's variables. After
a failed request the process poisons what was borrowed and ends. Another
process may take an output path at any time (`Take`) and anyone may kill the
session (`Kill`). The proof is linked first here, the opposite order to the output
transaction: a kill between the links leaves a proof without a report, which
`OutputsHonest` allows, and never a report without its proof. Plan hash and arena
size are always found equal on reuse because `build` is deterministic, so those
checks are no choice here.

**`OutputTransaction`** A run of a product is a program counter through
`prepare`, the proof, `prepare` again, the link of the report (or its printing),
the link of the proof and the rollback. Each system call is a step, may fail, and
the run may be killed before it. A file is named after the run that wrote it and
what it is; only `link` and `deleteFile` change what is visible. Runs share
nothing but the names, which may coincide or cross. `AtomicPublication` publishes
both files in one step; a reader of the commit marker sees the files of finished
runs (`published`), and to that reader the two links and the rollback are one
step or none.

## Runs

| run | question | bounds | result |
|---|---|---|---|
| `request_service_safety` | do ring, accounts and ownership survive every interleaving, is it a FIFO queue, and is every accepted request answered? | 2 slots, 4 tickets (two laps), 2 generations, clock 0..1 in any order, sizes on both sides of each limit, admission while proving | 10 properties hold, the refinement and the answers (under fairness) among them |
| `request_service_end` | is a runtime ended by one call, as the contract says? | 3 slots, 2 tickets, constant clock, admission closed while proving | violated (finding) |
| `deferred_commit_safety` | is the deferral invisible, and is everything joined, and freed but for what a failing build lost? | 4 commits, all five paths, 3 mixes | 6 properties hold, refinement and termination of calls among them |
| `deferred_commit_errors` | is column storage given back once on errors? | 3 commits, 1 mix | violated (finding) |
| `deferred_commit_lost` | does a failed commit give its columns back, as its doc says? | 3 commits, streaming only, 1 mix | violated (finding) |
| `deferred_commit_abandon` | does the worker stay within the scheme's life if a caller skips deinit? | 3 commits, 1 mix | violated (finding) |
| `shared_runtime` | does anybody lose the runtime under them, are snapshots of one moment, do calls return? | 2 threads, a buffer, a tree and an arena, 2 runtimes | 4 properties hold, `CallsReturn` under its premise |
| `shared_runtime_arena` | do lookup arenas keep their runtime? | 2 threads, a buffer, an arena | violated (finding) |
| `cuda_session` | pins, cache, registry and endings with failing calls; do calls and endings come to their end? | 3 keys, cache of 2, registry of 3, 3 allocations, 3 stages, 1 function | 5 invariants hold, and termination under fairness |
| `output_transaction` | is a proof ever visible without its report, and what does an error leave? | 3 runs, 2 names, any outputs | 4 properties hold, the refinement among them |
| `arena_epochs` | do the planners find the lowest fit, and does a run keep every live value? | lists of 3 buffers from a catalogue, 3 ticks, 8 addresses, 2 runs, 2 writes | 6 properties hold, the refinement and termination among them |
| `metal_session` | what is reused after what, who owns it, and what do the outputs say? | 5 requests of 4 kinds over 3 layouts, caches of 2 | 4 properties hold |

**Why the bounds are enough.** A ring of two wraps twice with four tickets, and
a ring of two is the smallest in which head, tail and the running slot can
differ and a cancellation can leave a finished slot behind a waiting one. Two
generations make one reset, after which everything starts over. In the scheme
only the first commit is special: four commits have one before, one at and two
after every point where a deferral is resolved. Of two threads each can hold what the other waits for
or release what the other counts; two builders that race are two as well, and two
runtimes make one rebuild. A third thread is not checked (the proofs hold for any
number). Three keys for
two places make every eviction a choice; a registry one larger than the cache
lets orphaned allocations fill it. Two names are enough to want them crosswise,
and with three runs one can step in where a second clears up after a first; a
retry is another run. Three buffers over three ticks are
enough for a buffer to be away in the middle while two others use its memory,
for a gap that is too small and one that fits, and for a group of two; the
catalogue has sizes and alignments on both sides of each other, and lists that
admission refuses. A second run meets what the first left in memory, file and
recipes. Five requests fill caches of two (four in the code), evict, and come
back to what was evicted; two kinds share a layout, which is how a plan is found
without its host geometry. `MaxTicket`, `MaxGeneration`, `MaxTime`,
`MaxMixes`, `MaxRuntimes`, `MaxAllocations`, `MaxFunctions`, `MaxRuns`,
`MaxVersion`, `Limit` (of addresses) and `MaxRequests` only bound counters.
`MaxTicket` and `MaxGeneration` stand for the width of the code's
u64, and the actions fail at them as the code does; `MaxTime` bounds the
readings; the others bound how long the environment goes on.

**Symmetry** is used on runs and names in `output_transaction`. It has no liveness
property, and nothing is ordered or chosen (`CHOOSE`) among them.

**Deadlock** is checked for the shared runtime (both runs) and
the CUDA session, which can always go on. A destroyed service, a scheme
that is gone, runs that have all ended, an arena after its last run and a
session that has left stop, so their configurations do not check it.

### Fairness

- *RequestService* (`FairSpec`): the owner keeps pumping and publishing, and a
  proof that runs ends. The code leaves pumping to its caller; without it
  nothing can be promised. Fairness of `Pump` includes that the clock does not go
  back at every pump: the system clock never does, a caller's own may, and a start
  that reads such a time is refused and leaves the request queued. Nobody is obliged to submit, cancel or shut down.
- *DeferredCommit*: main thread and worker are scheduled; a caller is not
  obliged to make another call.
- *SharedRuntime*: threads run and end leases they hold; strong fairness for
  taking the lock, with the premise `[]<>(readers = {})`: whether a waiting
  writer holds new readers off depends on the operating system's lock, so the
  property claims nothing for a machine whose readers never leave a gap.
- *CudaSession*: a call, once begun, runs to its end, and a close that failed is
  followed by an abort, as the request service does
  (`request_service.zig` 464-467).
- *ArenaEpochs*: the one thread that plans and runs keeps going until its loop
  ends. `LoopsEnd` exempts the CUDA search of a build without overflow checks:
  next to the top of the address space its alignment wraps to zero and it
  rescans for ever.
- *MetalSession* has none: it may be killed at any point and a client may never
  ask again, so there is nothing it owes.

## Findings

Each is a run with `expect: violation`; `PROJECT.json` quotes the sentence.

- `RuntimeEndedOnce`: `close` aborts a runtime whose `close` returned an error,
  although the contract says that ownership has passed even then. The CUDA
  runtime behind it keeps ownership when its close fails
  (`process_runtime.zig` 74-79) and so suits the service, not the contract.
- `GivenBackOnce`: some error exits of a commit give the same columns back
  twice, through the errdefers of caller and callee.
- `FailureDeinitializes`: a commit that fails does not always give its columns
  back. The streaming path allocates its order (`scheme.zig` 432) before any
  errdefer is armed, and loses all of them when that fails. Smaller losses behind
  the same exit of the model: a column that has just become a coefficient when the
  note of it runs out of memory (`columns/circle_transforms.zig` 276-278,
  `columns/preparation.zig` 312-317), a buffer that cannot be noted
  (`columns/preparation.zig` 256-260, 277-278), and the coefficients that `commitPolys`
  retains when its tree cannot be built (`commit_polys.zig` 57-64).
- `WorkerWithinScheme` under `AbandoningSpec`: `proveCairoTrace` has error exits that skip
  `deinit` while the worker still borrows the scheme.
- `ArenasKeepRuntime`: lookup arenas outlive their lease without being counted,
  and a shutdown goes through.

## Proofs

TLAPS checks these for every value of the constants; the only assumptions are
the ones on constants (`LimitsAssumption`, `WidthAssumption`,
`CommitsAssumption`, `RuntimesAssumption`, `PathsAssumption`,
`PlacementAssumption`, `EpochAssumption`, and the `SessionAssumption` of each of
`CudaSession` and `MetalSession`), which TLC evaluates in every run of
those modules.

**`RequestServiceProofs`** `ServiceInv` joins the type invariant, the ring, the
order of publication, single flight, the poisoned state and the exact queue
depth. None is inductive alone: a ring without holes needs the running slot to be where
the owner thinks it is, which needs the ring. Actions that leave the ring in
place are treated together (`InPlace`). `FenceInv` adds generations and the
ended runtimes. The two action properties follow from the invariant: the
oldest queued slot has the least ticket because offsets in the ring and
tickets agree. `VerdictsRead` says that a ticket that is given out and not
published has exactly one slot, from which the mapping reads its verdict; with
it `QueueRefined` maps each action to a step of `ProofQueue`, those of `InPlace`
slot by slot. Ownership is told by ticket for the same reason: `OwnerInv` says
where the request and the proof of each ticket are (`RequestsPlaced`,
`ProofsPlaced`) and what a slot records about itself (`RecordInv`: the holders
its state implies and the order of its readings of the clock). `CountsAgree`
proves the counters of `TelemetryConserved`, `BytesConserved` the whole of it:
`InputOf` counts one pair of slot and byte for every byte retained, so what a
submission adds and a release takes away follows from the theorems about
cardinalities, with no induction over slots. `NoUnderflow` draws the consequence:
what a held request retains is a part of `queued_input_bytes`, so the assertion
of `cancelSlotWithWait` (683-686) holds, and neither the error of
`finishRequestAccounting` (594-597) nor the branch that saturates (619-628) is
taken. `HeadNeverStuck` says that an owner with tickets between two
calls can publish the oldest or start it.

**`DeferredCommitProofs`** `SchemeInv` says where the main thread may be in each
state of the pending build (`Control`), that worker and slot belong to one
build (`OneWorker`) and that trees and transcript are in the order of the calls
(`InOrder`). `Steps` proves it action by action, `Refines` maps each action to
a step of `SequentialCommit` or a stutter. `Storage` names a holder (`Holder`) for the
columns of each commit that are neither given back nor lost: its tree, the build
in flight, or the commit under way with its armed errdefers. What is lost has no
holder (`Loss`), so nothing releases it later. That gives `StorageReturned`, the
theorem `OnlyBuildsLose`: resolution, observation, discard, the append and `deinit`
leak nothing on any path, and a build that loses its columns takes no other
commit's with it. That a failing build should lose nothing is what the code does not
keep (`FailureDeinitializes`). `CallsComeBack` ranks a
call by the steps it has left: each lowers the rank or is one of the worker's, and
a call that waits finds a worker that runs or a result. It is where the order
of `resolve` counts, which clears `pending_commit` before it appends.

**`SharedRuntimeProofs`** `RuntimeInv`: the lock excludes what it should, the
lifecycle counters tell which runtime there is, leases are the threads that
hold one, a maker makes one object and holds a lease, and the count of
residents is the number of tracked objects not yet given back. A shutdown that
reads zero under the exclusive lock finds no tracked object: counted ones there
are none, and those not yet counted have a maker, who would hold the lock.
`NoDeadlock` needs one thing more, that a thread in the midst of making
an object has one to go on with (`Makes`): then each hold of the lock has a
holder that can go on to release it. `ReleasesAreCounted` is the assertion of
`releaseResidentResource`.

**`OutputTransactionProofs`** `OutputInv`: what is visible lies where its run
wanted it, and that run has got far enough to have put it there (`Owned`); a run
past a link still has the file it linked (`Kept`). `ReportFirst` reads the first
from the proof to its run and the second from the run to its report. The rollback
removes by name, and only `Kept` says that the name is still the run's own; `Kept`
in turn needs a link that never replaces. `Atomic` maps the step in which a run
gets done to one publication: by `Owned` nothing else of the run is visible, by
`Kept` everything it wanted is.

**`CudaSessionProofs`** `SessionInv` adds three things to what the run checks.
`Phase` says for each state of the session, each call in progress and each step of
an ending which of context, loader, proof and cache are still there. `Blank`
says that an empty slot of the cache is empty altogether. `Clean` says that in a
session without a failed call every graph on the device belongs to an entry and
the functions are gone before the loader. `ReadyMeansAble` and `EndsEmpty` follow
from `Phase` and `Clean`; the pins and the cache carry themselves, once
`Phase` says that nobody evicts or drains while a proof is open.
`EvictsLeastRecent` shows that the order of use of the entries is total and
strict, so there is one victim whenever there is an entry. `CallsComeBack` gives
each call a rank, at most `4 + MaxFunctions + Capacity`, that every step lowers,
the failing ones too.

**`ArenaPlacementProofs`** `PlacementInv` rests on `Searched`: below the candidate
no aligned offset is free, and the sweep of Metal has every conflict it has
passed below the candidate. Each search keeps it in its own way; where either
stops, the candidate is the lowest fit, and that gives both the refinement of
`LowestFit` and the disjointness of what is needed together. `LayoutFollowsFromList`
goes further: the buffers are taken in a strict order (`EarlierStrict`), each at
the lowest offset free of those before it (`Greedy`), and two such layouts
would differ first at some buffer, where both are lowest (`GreedyIsUnique`); so the
layout is a function of the list, and the two planners' searches cannot
disagree on it. `OverflowIsFinal`: an overflow means that no offset is left
(Metal, which rounds up by adding, gives up the last addresses below the top as
well). `PlansAreWhole`: a plan that is returned has placed every buffer.
`PlanningAdvances`: each step leaves fewer buffers to place or, within a search,
fewer placements to pass; the exception is a build without overflow checks, in
which the alignment of the CUDA search may wrap and the search start over.

**`ArenaEpochsProofs`** A run changes no part of the plan, so the theorems of
the placement carry over (`EpochsKeepThePlan`). `EpochInv` says where each buffer
stands at each tick (`OnSchedule`), hence that the runner refuses nothing, and what
memory and file hold for it (`Values`): a live buffer overlaps no other live one,
so only its own writes, restores and recomputations reach its memory. One
dispatch recomputes a whole group; that each member is recomputed once per tick,
after the last run's ticks were forgotten, is why `RecipesReset` is needed.
`RunningAdvances`: each step of a run does a buffer of this half of the tick,
goes on to the next half, or ends the run.

**`MetalSessionProofs`** Two invariants, the second resting on the first.
`SessionInv` says which transactions are open at each point of a request
(`Control`), that they hold what a verified request of the same key made or what
this request made (`Sourced`), and what is at the output paths (`Shown`). `OwnerInv`
says that an object of this request is in no cache before the commit (`Apart`) and that
`live` is the sum over the owners (`Ledger`). What a cache evicts plays no part.
From both, `NoCallOutOfTurn`: the some twenty checks by which the caches
defend themselves against a call out of turn (a second loan, a plan without an
owner, a snapshot or recipes that are not there) never fire, so a request is
not refused for what the requests before it left. It needs `Prepared`, that the arena
is there while the state is ready or lent. `CachesBounded` adds the clocks
(`Clocks`: no two entries were committed by the same one): a commit takes an
entry away whenever the cache is full, and there is one to take.

**Properties of the models that are proved and no longer have a run of their own**:
`SingleFlight`, `RuntimeGivenUp`, `StartsOldestFirst`, `VerdictsStick` (request
service); `OwedRootIsFirst` (commitment scheme); `LeaseKeepsRuntime`,
`ObjectsKeepRuntime` (both within `RuntimeOutlivesUses`) and `BuiltOnce` (shared
runtime). They were checked by TLC before they were proved.

**Proved of the models and checked by no run**: `NoUnderflow`, `HeadNeverStuck`
(request service); `NoDeadlock`, `ReleasesAreCounted` (shared runtime);
`EvictsLeastRecent` (CUDA session); `LayoutFollowsFromList`, `OverflowIsFinal`,
`PlansAreWhole` (arenas); `NoCallOutOfTurn`, `CachesBounded` (Metal session); and
the ranks, `CallsComeBack` twice, `PlanningAdvances` and `RunningAdvances`.

**What the ranks say of liveness.** The prover handles neither fairness nor
ENABLED, so `CallsReturn` and `LoopsEnd` stay with TLC. The ranks are
their safety half, for every value of the constants: nothing that can happen while
a call or a run is in progress takes it further from its end. What is left is
that its steps are taken, which is the fairness. `HeadNeverStuck` does the same for
`Answered`, `NoDeadlock` for the `CallsReturn` of the shared runtime. That one
has no rank: `acquire` goes back and forth between the two holds of its lock, and
only the strong fairness of the lock makes it end.

**Model-checked only.** Liveness (`Answered`, the three `CallsReturn`, `LoopsEnd`)
and the five violations.

## Faults

Operators named `Bug...` are definitions with a plausible mistake in them, next
to the right ones; no action uses them. Put in place of its neighbour, each one
makes TLC report the property beside it, so the property does say something
about the code.

| property | run | right | fault |
|---|---|---|---|
| `TypeOK` | `request_service_safety` | `HasRoom` | `BugHasRoom` |
| `RingHoldsUnpublished` | `request_service_safety` | `NextHead` | `BugNextHead` |
| `PublishedInOrder` | `request_service_safety` | `NextSlot` | `BugNextSlot` |
| `OwnedOnce` | `request_service_safety` | `Settled` | `BugSettled` |
| `TelemetryConserved` | `request_service_safety` | `Release` | `BugRelease` |
| `PoisonDrains` | `request_service_safety` | `AbortRuntime` | `BugAbortRuntimeOwned` |
| `GenerationFence` | `request_service_safety` | `CanReset` | `BugCanReset` |
| `ProofReceiptsOrdered` | `request_service_safety` | `Accounted` | `BugAccounted` |
| `ImplementsProofQueue` | `request_service_safety` | `CanceledByPoison` | `BugCanceledNone` |
| `Answered` | `request_service_safety` | `Finished` | `BugFinished` |
| `TypeOK` | `deferred_commit_safety` | `Discards` | `BugDiscards` |
| `WorkerWithinScheme` | `deferred_commit_safety` | `MustJoin` | `BugMustJoin` |
| `WorkerReaped` | `deferred_commit_safety` | `Owed` | `BugOwed` |
| `StorageReturned` | `deferred_commit_safety` | `Discarded` | `BugDiscarded` |
| `ImplementsSequential` | `deferred_commit_safety` | `MayMix` | `BugMayMix` |
| `CallsReturn` | `deferred_commit_safety` | `ClearPending` | `BugClearPending` |
| `TypeOK` | `shared_runtime` | `Disposal` | `BugDisposal` |
| `RuntimeOutlivesUses` | `shared_runtime` | `Retained` | `BugRetained` |
| `SnapshotConsistent` | `shared_runtime` | `MustBuild` | `BugMustBuild` |
| `CallsReturn` | `shared_runtime` | `Reopen` | `BugReopen` |
| `TypeOK` | `cuda_session` | `Installed` | `BugInstalled` |
| `ArenaPinned` | `cuda_session` | `Released` | `BugReleased` |
| `CacheSound` | `cuda_session` | `Dropped` | `BugDropped` |
| `ReadyMeansAble` | `cuda_session` | `IsReady` | `BugIsReady` |
| `EndsEmpty` | `cuda_session` | `LoaderLeft` | `BugLoaderLeft` |
| `CallsReturn` | `cuda_session` | `Vacated` | `BugVacated` |
| `TypeOK` | `output_transaction` | `WithoutProof` | `BugWithoutProofUndone` |
| `ReportFirst` | `output_transaction` | `Free` | `BugFree` |
| `ErrorsLeaveNothing` | `output_transaction` | `WithoutProof` | `BugWithoutProofKept` |
| `ImplementsAtomic` | `output_transaction` | `WithoutReport` | `BugWithoutReport` |
| `TypeOK` | `arena_epochs` | `NextTick` | `BugNextTick` |
| `NoAliasing` | `arena_epochs` | `EndsBefore` | `BugEndsBefore` |
| `LiveHoldsValue` | `arena_epochs` | `RecipesReset` | `BugRecipesReset` |
| `NeverRefused` | `arena_epochs` | `Occupied` | `BugOccupied` |
| `ImplementsLowestFit` | `arena_epochs` | `AlignForward` | `BugAlignForward` |
| `LoopsEnd` | `arena_epochs` | `RescanPast` | `BugRescanPast` |
| `TypeOK` | `metal_session` | `HandedOver` | `BugHandedOver` |
| `OnlyVerifiedReused` | `metal_session` | `Reusable` | `BugReusable` |
| `OneOwner` | `metal_session` | `Unstage` | `BugUnstage` |
| `OutputsHonest` | `metal_session` | `Link` | `BugLink` |

## What is not modelled, and why

Contents: columns, roots, proofs, traces and kernels are numbers or nothing.
Names of errors, log lines and telemetry that nobody decides by are left out,
and so are byte sizes on the device: any request may or may not fit. The
clocks of the LRU (u64) are an order. Threads inside a kernel or a parallel loop are
joined before the call returns and are part of their call. Temporary arenas of
one-shot CUDA proofs (`openPrepared`, the Cairo command line) do not enter the
cache and are left out of `CudaSession`; so is the error exit of that command
line, which never aborts after a failed close (listed as a hazard). The temporary files
of the output transaction have random names and are left out. Of the arenas,
hashes, peak accounting, `bytesThroughTick`, look-ups by id and the allocation of the
slab are left out. Of the Metal prover session, the artifact store and its views,
the admission of composition programs (ahead-of-time artifacts), the content of
requests and reports, the process environment, and the non-canonical plans of
`metal_arena_plan`, which a session never asks for. `std`, the
operating system's locks and the CUDA and Metal drivers are taken from how the
code uses them: every call may fail, a lock excludes.

The rest is not modelled because a bounded model of it would say nothing: fields,
FFTs, FRI, Merkle trees, AIR components and their generated tables (the test
vectors under `vectors/` among them) are functions of large data
without state between calls; the frontends are interpreters whose breadth is data;
products, formats, tools and scripts are glue whose calls into the modelled
parts are those parts' environments. The task graph runs its tasks one after the
other in its caller's thread and the work pool wraps `std.Thread.Pool`, whose
queue is outside the repository; neither has a protocol of its own.
