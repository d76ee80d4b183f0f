--------------------------- MODULE RequestService ---------------------------
(***************************************************************************)
(* The proof request service (prover/execution/request_service.zig): a     *)
(* bounded FIFO in front of one process-owned proof runtime. Any thread    *)
(* may submit; one owner thread pumps, publishes, cancels, resets and      *)
(* shuts down. Every operation holds queue_mutex, so each is one step,     *)
(* except pumpOne: it starts a request under the lock, proves it with the  *)
(* lock free, and settles it under the lock again. Submissions fall in     *)
(* between; the owner's own operations cannot.                             *)
(*                                                                         *)
(* A call that returns without changing the state below (a refused         *)
(* submission, an idle pump, a pending publication, an unknown ticket) is  *)
(* a stuttering step.                                                      *)
(*                                                                         *)
(* An operator whose name begins with Bug is the next definition with a    *)
(* plausible mistake in it. No action uses it: it shows which property     *)
(* would notice the mistake (README.md, "Faults").                         *)
(***************************************************************************)
EXTENDS Integers, Sequences, FiniteSets

CONSTANTS
  MaxPending,           \* Limits.max_pending, the length of `slots`
  MaxRequestDevice,     \* Limits.max_request_device_bytes
  MaxQueuedInput,       \* Limits.max_queued_input_bytes
  EnqueueWhileRunning,  \* Limits.enqueue_while_running
  DeviceSizes,          \* predicted_device_bytes of the requests submitted
  InputSizes,           \* retained_input_bytes of the requests submitted
  MaxTicket,            \* the largest Ticket (2^64-1 in the code)
  MaxGeneration,        \* the largest runtime_generation (2^64-1)
  MaxTime,              \* the largest reading of the clock
  MonotonicClock        \* TRUE for SystemClock, FALSE for any other Clock

ASSUME LimitsAssumption ==
  /\ MaxPending \in Nat \ {0}
  /\ MaxRequestDevice \in Nat \ {0} /\ MaxQueuedInput \in Nat \ {0}
  /\ EnqueueWhileRunning \in BOOLEAN /\ MonotonicClock \in BOOLEAN
  /\ DeviceSizes \subseteq Nat /\ InputSizes \subseteq Nat
ASSUME WidthAssumption ==
  /\ MaxTicket \in Nat \ {0} /\ MaxGeneration \in Nat \ {0} /\ MaxTime \in Nat

Index   == 0 .. MaxPending - 1
Tickets == 1 .. MaxTicket - 1
Time    == 0 .. MaxTime
NoTicket == 0       \* active_ticket = null
NoIndex  == -1      \* no request is being proved

SlotState == {"vacant", "queued", "running", "completed", "failed", "canceled"}
BugFinished == {"completed", "failed"}
Finished  == {"completed", "failed", "canceled"}

(* One entry of the ring: SlotState, whether `request` and `proof` are     *)
(* non-null, and the fields of metadata and receipt that decide something. *)
Slot == [state : SlotState, request : BOOLEAN, proof : BOOLEAN,
         ticket : 0 .. MaxTicket, generation : 1 .. MaxGeneration,
         retained : InputSizes \union {0},
         admitted : Time, started : Time, finished : Time]

VARIABLES
  slots, head, tail, count,      \* the ring
  activeTicket, nextTicket,
  state,                         \* ready, poisoned, stopped; destroyed after deinit
  runtimeOwned, generation,
  queueDepth, queuedBytes,       \* telemetry that admission and shutdown act on
  started, completed, failed, canceled,  \* telemetry counters of requests
  executing,    \* the owner thread: index of the slot pumpOne is proving
  clock,        \* the last reading of the clock
  published,    \* history: what publishNext returned, in order
  requestAt,    \* history: who holds the request of each ticket
  proofAt,      \* history: who holds the proof made for each ticket
  endCalls      \* history: close and abort calls made on this generation's runtime

ring    == <<head, tail, count>>
tally   == <<started, completed, failed, canceled>>
runtime == <<runtimeOwned, generation, endCalls>>
fates   == <<published, requestAt, proofAt>>
vars == <<slots, ring, activeTicket, nextTicket, state, runtime, queueDepth,
          queuedBytes, tally, executing, clock, fates>>

(* Who holds a request or a proof; "none" before a proof is made, "twice"  *)
(* after a double destruction.                                             *)
Holder == {"none", "caller", "service", "freed", "twice"}
Free(holder) == IF holder = "service" THEN "freed" ELSE "twice"

Kind == [completed |-> "proof", failed |-> "failure", canceled |-> "canceled"]

Vacant == [state |-> "vacant", request |-> FALSE, proof |-> FALSE,
           ticket |-> NoTicket, generation |-> 1, retained |-> 0,
           admitted |-> 0, started |-> 0, finished |-> 0]

Init ==
  /\ slots = [i \in Index |-> Vacant]
  /\ head = 0 /\ tail = 0 /\ count = 0
  /\ activeTicket = NoTicket /\ nextTicket = 1
  /\ state = "ready"
  /\ runtimeOwned = TRUE /\ generation = 1 /\ endCalls = 0
  /\ queueDepth = 0 /\ queuedBytes = 0
  /\ started = 0 /\ completed = 0 /\ failed = 0 /\ canceled = 0
  /\ executing = NoIndex
  /\ clock = 0
  /\ published = <<>>
  /\ requestAt = [t \in Tickets |-> "caller"]
  /\ proofAt = [t \in Tickets |-> "none"]

-----------------------------------------------------------------------------
(* Helpers.                                                                *)

Wrap(i) == i % MaxPending

(* The values Clock.now may return.                                        *)
Readings == IF MonotonicClock THEN clock .. MaxTime ELSE Time

(* The owner thread is in the service only between its own calls.          *)
OwnerFree == executing = NoIndex /\ state # "destroyed"

Queued == {i \in Index : slots[i].state = "queued"}
TicketsOf(S) == {slots[i].ticket : i \in S}

(* The retained input of the slots in S, in bytes: a pair for each byte.   *)
InputOf(S) == Cardinality(UNION {{i} \X (1 .. slots[i].retained) : i \in S})

(* nextQueuedIndex: the first queued slot of the ring from the head.       *)
OldestQueued(i) ==
  \E k \in 0 .. count - 1 :
    /\ i = Wrap(head + k) /\ i \in Queued
    /\ \A j \in 0 .. k - 1 : Wrap(head + j) \notin Queued

(* cancelSlot, whichever way its elapsed-time check goes.                  *)
Canceled(s, now) == [s EXCEPT !.state = "canceled", !.request = FALSE,
                              !.started = now, !.finished = now]

FreeRequests(S) ==
  requestAt' = [t \in Tickets |-> IF t \in S THEN Free(requestAt[t]) ELSE requestAt[t]]

BugAbortRuntimeOwned(calls) ==
  /\ state # "poisoned"
  /\ state' = "poisoned"
  /\ endCalls' = endCalls + calls + 1
  /\ UNCHANGED runtimeOwned

(* abortRuntime, which does nothing to a service already poisoned (no call *)
(* of it comes then); `calls` counts the runtime calls made just before.   *)
AbortRuntime(calls) ==
  /\ state # "poisoned"
  /\ state' = "poisoned"
  /\ runtimeOwned' = FALSE
  /\ endCalls' = endCalls + calls + (IF runtimeOwned THEN 1 ELSE 0)

FreeProofs(S) ==
  proofAt' = [t \in Tickets |-> IF t \in S THEN Free(proofAt[t]) ELSE proofAt[t]]

(* destroySlots.                                                           *)
DestroySlots ==
  /\ FreeRequests(TicketsOf({i \in Index : slots[i].request}))
  /\ FreeProofs(TicketsOf({i \in Index : slots[i].proof}))
  /\ slots' = [i \in Index |-> Vacant]
  /\ head' = 0 /\ tail' = 0 /\ count' = 0
  /\ activeTicket' = NoTicket
  /\ queueDepth' = 0 /\ queuedBytes' = 0

-----------------------------------------------------------------------------
(* Any thread.                                                             *)

BugHasRoom == count <= MaxPending
HasRoom == count # MaxPending

(* The slot a submission takes.                                            *)
BugNextSlot ==
  CHOOSE i \in Index : /\ slots[i].state = "vacant"
                       /\ \A j \in 0 .. i - 1 : slots[j].state # "vacant"
NextSlot == tail

(* The checks of `submit`, in its order. The sum of bytes is exact: where  *)
(* u64 would overflow it exceeds the limit as well, and the answer is the  *)
(* same.                                                                   *)
Admissible(device, retained) ==
  /\ state = "ready"
  /\ activeTicket = NoTicket \/ EnqueueWhileRunning
  /\ HasRoom
  /\ device <= MaxRequestDevice
  /\ queuedBytes + retained <= MaxQueuedInput
  /\ nextTicket < MaxTicket

Submit(device, retained, now) ==
  /\ Admissible(device, retained)
  /\ slots' = [slots EXCEPT ![NextSlot] =
       [state |-> "queued", request |-> TRUE, proof |-> FALSE,
        ticket |-> nextTicket, generation |-> generation, retained |-> retained,
        admitted |-> now, started |-> 0, finished |-> 0]]
  /\ nextTicket' = nextTicket + 1
  /\ tail' = Wrap(tail + 1)
  /\ count' = count + 1
  /\ queueDepth' = queueDepth + 1
  /\ queuedBytes' = queuedBytes + retained
  /\ requestAt' = [requestAt EXCEPT ![nextTicket] = "service"]
  /\ clock' = now
  /\ UNCHANGED <<head, activeTicket, state, runtime, tally, executing, published, proofAt>>

-----------------------------------------------------------------------------
(* The owner thread: pumpOne.                                              *)

(* startNext: the oldest queued request begins to run.                     *)
Start(i, now) ==
  /\ OwnerFree /\ state = "ready" /\ activeTicket = NoTicket
  /\ OldestQueued(i)
  /\ slots[i].admitted <= now
  /\ slots' = [slots EXCEPT ![i].state = "running", ![i].started = now]
  /\ activeTicket' = slots[i].ticket
  /\ executing' = i
  /\ queueDepth' = queueDepth - 1
  /\ started' = started + 1
  /\ clock' = now
  /\ UNCHANGED <<ring, nextTicket, state, runtime, queuedBytes, completed, failed, canceled, fates>>

(* startNext returns TimeWentBackwards: the start time is already written, *)
(* the request stays queued and blocks those behind it.                    *)
StartRefused(i, now) ==
  /\ OwnerFree /\ state = "ready" /\ activeTicket = NoTicket
  /\ OldestQueued(i)
  /\ now < slots[i].admitted
  /\ slots' = [slots EXCEPT ![i].started = now]
  /\ clock' = now
  /\ UNCHANGED <<ring, activeTicket, nextTicket, state, runtime, queueDepth, queuedBytes,
                 tally, executing, fates>>

(* finishRequestAccounting succeeds. It may also fail when a total of the  *)
(* telemetry overflows u64: the totals are not modelled, so the failing    *)
(* branch is open whenever a request is settled.                           *)
BugAccounted(s, now) == s.retained <= queuedBytes
Accounted(s, now) == s.started <= now /\ s.retained <= queuedBytes

BugRelease(s) == queuedBytes' = queuedBytes
Release(s) == queuedBytes' = queuedBytes - s.retained

BugSettled(s, result, made, now) ==
  [s EXCEPT !.state = result, !.proof = made, !.finished = now]

(* The request of the running slot leaves the service.                     *)
Settled(s, result, made, now) ==
  [s EXCEPT !.state = result, !.request = FALSE, !.proof = made, !.finished = now]

Settle ==
  /\ FreeRequests({slots[executing].ticket})
  /\ activeTicket' = NoTicket
  /\ executing' = NoIndex

(* execute returned a proof, the runtime is ready, accounting succeeded.   *)
Complete(now) ==
  /\ executing # NoIndex
  /\ LET s == slots[executing] IN
       /\ Accounted(s, now)
       /\ slots' = [slots EXCEPT ![executing] = Settled(s, "completed", TRUE, now)]
       /\ proofAt' = [proofAt EXCEPT ![s.ticket] = "service"]
       /\ Release(s)
  /\ Settle
  /\ completed' = completed + 1
  /\ clock' = now
  /\ UNCHANGED <<ring, nextTicket, state, runtime, queueDepth, started, failed, canceled, published>>

(* execute failed, the disposition is request_only and the runtime ready.  *)
FailRequest(now) ==
  /\ executing # NoIndex
  /\ LET s == slots[executing] IN
       /\ Accounted(s, now)
       /\ slots' = [slots EXCEPT ![executing] = Settled(s, "failed", FALSE, now)]
       /\ Release(s)
  /\ Settle
  /\ failed' = failed + 1
  /\ clock' = now
  /\ UNCHANGED <<ring, nextTicket, state, runtime, queueDepth, started, completed, canceled,
                 published, proofAt>>

(* The slots cancelQueuedAfterPoison cancels.                              *)
BugCanceledNone == {}
CanceledByPoison == Queued

(* Every other end of an execution poisons the runtime: accounting failed, *)
(* the failure is not confined to the request, or the runtime is not ready *)
(* after a proof. A proof that execute made is destroyed (`made`), the     *)
(* runtime is aborted and every queued request canceled.                   *)
Poison(made, accounted, now) ==
  /\ executing # NoIndex
  /\ LET s == slots[executing]
         released == IF s.retained <= queuedBytes THEN queuedBytes - s.retained ELSE 0
     IN
       /\ accounted => Accounted(s, now)
       /\ slots' = [i \in Index |->
            CASE i = executing -> Settled(s, "failed", FALSE, IF accounted THEN now ELSE s.finished)
              [] i \in CanceledByPoison -> Canceled(slots[i], now)
              [] OTHER -> slots[i]]
       /\ FreeRequests({s.ticket} \union TicketsOf(CanceledByPoison))
       /\ proofAt' = [proofAt EXCEPT ![s.ticket] = IF made THEN "freed" ELSE @]
       /\ queuedBytes' = released - InputOf(CanceledByPoison)
  /\ AbortRuntime(0)
  /\ activeTicket' = NoTicket
  /\ executing' = NoIndex
  /\ queueDepth' = queueDepth - Cardinality(CanceledByPoison)
  /\ failed' = failed + 1
  /\ canceled' = canceled + Cardinality(CanceledByPoison)
  /\ clock' = now
  /\ UNCHANGED <<ring, nextTicket, generation, started, completed, published>>

-----------------------------------------------------------------------------
(* The owner thread: publication and cancellation.                         *)

BugNextHead == head
NextHead == Wrap(head + 1)

PublishNext ==
  /\ OwnerFree
  /\ count # 0
  /\ slots[head].state \in Finished
  /\ LET s == slots[head] IN
       /\ published' = Append(published, [ticket |-> s.ticket, kind |-> Kind[s.state]])
       /\ proofAt' = [proofAt EXCEPT ![s.ticket] = IF s.proof THEN "caller" ELSE @]
  /\ slots' = [slots EXCEPT ![head] = Vacant]
  /\ head' = NextHead
  /\ count' = count - 1
  /\ UNCHANGED <<tail, activeTicket, nextTicket, state, runtime, queueDepth, queuedBytes,
                 tally, executing, clock, requestAt>>

(* abortQueued of the ticket in slot i. The caller is told                 *)
(* TimeWentBackwards, or canceled: the slot is canceled either way.        *)
AbortQueued(i, now) ==
  /\ OwnerFree /\ state # "stopped"
  /\ i \in Queued
  /\ slots' = [slots EXCEPT ![i] = Canceled(slots[i], now)]
  /\ FreeRequests({slots[i].ticket})
  /\ queuedBytes' = queuedBytes - slots[i].retained
  /\ queueDepth' = queueDepth - 1
  /\ canceled' = canceled + 1
  /\ clock' = now
  /\ UNCHANGED <<ring, activeTicket, nextTicket, state, runtime, started, completed, failed,
                 executing, published, proofAt>>

-----------------------------------------------------------------------------
(* The owner thread: lifecycle.                                            *)

Drained == activeTicket = NoTicket /\ count = 0

(* close, when Runtime.close succeeds.                                     *)
Close ==
  /\ OwnerFree /\ state = "ready" /\ Drained
  /\ runtimeOwned' = FALSE
  /\ endCalls' = endCalls + 1
  /\ state' = "stopped"
  /\ UNCHANGED <<slots, ring, activeTicket, nextTicket, generation, queueDepth, queuedBytes,
                 tally, executing, clock, fates>>

(* close, when Runtime.close returns an error: abortRuntime follows it.    *)
CloseFails ==
  /\ OwnerFree /\ state = "ready" /\ Drained
  /\ AbortRuntime(1)
  /\ UNCHANGED <<slots, ring, activeTicket, nextTicket, generation, queueDepth, queuedBytes,
                 tally, executing, clock, fates>>

AbortAll ==
  /\ OwnerFree /\ activeTicket = NoTicket
  /\ DestroySlots
  /\ endCalls' = endCalls + (IF runtimeOwned THEN 1 ELSE 0)
  /\ runtimeOwned' = FALSE
  /\ state' = "stopped"
  /\ UNCHANGED <<nextTicket, generation, tally, executing, clock, published>>

BugCanReset == state = "poisoned" /\ ~runtimeOwned
CanReset == state = "poisoned" /\ ~runtimeOwned /\ Drained

(* reset with a single-lane runtime. Refused with another lane count or    *)
(* with the generation counter at its limit: the offered runtime is then   *)
(* aborted and the service keeps its state.                                *)
Reset ==
  /\ OwnerFree /\ CanReset
  /\ generation < MaxGeneration
  /\ runtimeOwned' = TRUE
  /\ state' = "ready"
  /\ generation' = generation + 1
  /\ endCalls' = 0
  /\ UNCHANGED <<slots, ring, activeTicket, nextTicket, queueDepth, queuedBytes, tally,
                 executing, clock, fates>>

Deinit ==
  /\ OwnerFree
  /\ endCalls' = endCalls + (IF runtimeOwned THEN 1 ELSE 0)
  /\ runtimeOwned' = FALSE
  /\ DestroySlots
  /\ state' = "destroyed"
  /\ UNCHANGED <<nextTicket, generation, tally, executing, clock, published>>

-----------------------------------------------------------------------------
Settles(now) ==
  \/ Complete(now)
  \/ FailRequest(now)
  \/ \E made, accounted \in BOOLEAN : Poison(made, accounted, now)

Next ==
  \/ \E now \in Readings :
       \/ \E device \in DeviceSizes, retained \in InputSizes : Submit(device, retained, now)
       \/ \E i \in Index : Start(i, now) \/ StartRefused(i, now) \/ AbortQueued(i, now)
       \/ Settles(now)
  \/ PublishNext
  \/ Close \/ CloseFails \/ AbortAll \/ Reset \/ Deinit

Spec == Init /\ [][Next]_vars

(* The owner keeps pumping and publishing, and execute returns. A clock    *)
(* that goes back does not do so at every pump.                            *)
Pump == \E i \in Index, now \in Readings : Start(i, now)
Fairness ==
  /\ WF_vars(Pump)
  /\ WF_vars(\E now \in Readings : Settles(now))
  /\ WF_vars(PublishNext)
FairSpec == Spec /\ Fairness

-----------------------------------------------------------------------------
(* Properties.                                                             *)

(* Every variable has its type; queue_depth, which the code decrements,    *)
(* does not wrap below zero. TelemetryConserved gives queuedBytes its      *)
(* exact value, and with it its type.                                      *)
TypeOK ==
  /\ slots \in [Index -> Slot]
  /\ head \in Index /\ tail \in Index /\ count \in 0 .. MaxPending
  /\ activeTicket \in 0 .. MaxTicket /\ nextTicket \in 1 .. MaxTicket
  /\ state \in {"ready", "poisoned", "stopped", "destroyed"}
  /\ runtimeOwned \in BOOLEAN /\ generation \in 1 .. MaxGeneration /\ endCalls \in Nat
  /\ queueDepth \in Nat
  /\ started \in Nat /\ completed \in Nat /\ failed \in Nat /\ canceled \in Nat
  /\ executing \in Index \union {NoIndex}
  /\ clock \in Time
  /\ published \in Seq([ticket : Tickets, kind : {"proof", "failure", "canceled"}])
  /\ requestAt \in [Tickets -> Holder]
  /\ proofAt \in [Tickets -> Holder]

Serving == state \in {"ready", "poisoned"}
Delivered == Len(published)

(* The position of slot i in the ring, counted from the head.              *)
Offset(i) == IF i >= head THEN i - head ELSE i - head + MaxPending

(* The ring holds exactly the accepted tickets that are not published, in  *)
(* order from the head, with no hole: `submit` never overwrites a live     *)
(* slot and `publishNext` never meets a vacant head (request_service.zig   *)
(* 184, 394-422). After a shutdown every slot is vacant.                   *)
RingHoldsUnpublished ==
  /\ tail = Wrap(head + count)
  /\ \A i \in Index :
       IF Offset(i) < count
       THEN slots[i].state # "vacant" /\ slots[i].ticket = Delivered + Offset(i) + 1
       ELSE slots[i] = Vacant
  /\ Serving => nextTicket = Delivered + count + 1
  /\ ~Serving => count = 0

(* "every result remains unpublished until all earlier tickets have been   *)
(* consumed" (request_service.zig 5-6): results leave in ticket order,     *)
(* starting from the first, none skipped and none repeated.                *)
PublishedInOrder ==
  \A n \in 1 .. Delivered : published[n].ticket = n

(* "No second proof can overlap this call" (request_service.zig 236): at   *)
(* most one slot runs, it is the one the owner thread is proving, and      *)
(* active_ticket names it, whatever is submitted meanwhile. Proving goes   *)
(* on only in a ready service that owns its runtime.                       *)
SingleFlight ==
  /\ {i \in Index : slots[i].state = "running"} = {executing} \ {NoIndex}
  /\ IF executing = NoIndex
     THEN activeTicket = NoTicket
     ELSE activeTicket = slots[executing].ticket /\ state = "ready" /\ runtimeOwned

(* "An accepted request moves into the service and is destroyed exactly    *)
(* once by Workload" (request_service_types.zig 37-38): the service holds  *)
(* it while its slot is queued or running, and it is freed once after.     *)
RequestsDestroyedOnce ==
  /\ \A i \in Index : slots[i].request <=> slots[i].state \in {"queued", "running"}
  /\ \A t \in Tickets :
       requestAt[t] = CASE t >= nextTicket -> "caller"
                        [] \E i \in Index : slots[i].ticket = t /\ slots[i].request -> "service"
                        [] OTHER -> "freed"

(* A proof that execute returned is in its completed slot, or with the     *)
(* caller as the published proof of that ticket, or destroyed once; it is  *)
(* never published after it was destroyed (finishCompleted 355-390).       *)
ProofsHandedOverOnce ==
  /\ \A i \in Index : slots[i].proof <=> slots[i].state = "completed"
  /\ \A t \in Tickets :
       /\ proofAt[t] # "twice"
       /\ proofAt[t] = "service" <=> \E i \in Index : slots[i].ticket = t /\ slots[i].proof
       /\ proofAt[t] = "caller" <=> t <= Delivered /\ published[t].kind = "proof"

(* Requests and proofs are resources with one holder each, through every   *)
(* exit of an execution, cancellation, poisoning and shutdown.             *)
OwnedOnce == RequestsDestroyedOnce /\ ProofsHandedOverOnce

(* No counter loses or invents a request: queue_depth is the number that   *)
(* wait, a start has completed, failed or is running, an admission is      *)
(* started, canceled or waiting (until a destructive shutdown, which       *)
(* counts nothing).                                                        *)
CountsConserved ==
  /\ queueDepth = Cardinality(Queued)
  /\ started = completed + failed + (IF executing = NoIndex THEN 0 ELSE 1)
  /\ Serving => nextTicket - 1 = started + canceled + queueDepth

(* queued_input_bytes is the sum over the requests the service still       *)
(* holds, and the counters agree. A leak here would refuse all admissions  *)
(* in the end (request_service.zig 178-192, 600-627, 671-691).             *)
TelemetryConserved ==
  /\ queuedBytes = InputOf({i \in Index : slots[i].request})
  /\ queuedBytes <= MaxQueuedInput
  /\ CountsConserved

(* The poisoned runtime is given up before any caller sees the state, and  *)
(* nobody waits for it (poisonSlotAndRuntime 608-617): a poisoned service  *)
(* has no queued or running request, and owns a runtime iff it is ready.   *)
PoisonDrains ==
  /\ runtimeOwned <=> state = "ready"
  /\ state = "poisoned" =>
       \A i \in Index : slots[i].state \in Finished \union {"vacant"}

(* A runtime is closed or aborted by the service once it is given up and   *)
(* not before; close on a runtime that refuses is followed by an abort.    *)
RuntimeGivenUp ==
  /\ runtimeOwned <=> endCalls = 0
  /\ endCalls <= 2

(* A ticket is proved and published by the runtime generation that was     *)
(* current at its admission: `reset` waits until the ring is drained.      *)
GenerationFence ==
  \A i \in Index : slots[i].state # "vacant" => slots[i].generation = generation

(* The receipt of a proof is ordered in time even when the clock is not:   *)
(* a reading that goes back makes the start or the accounting fail.        *)
ProofReceiptsOrdered ==
  \A i \in Index : slots[i].state = "completed" =>
    slots[i].admitted <= slots[i].started /\ slots[i].started <= slots[i].finished

(* A settled slot never changes until it is published or the service is    *)
(* shut down: no later failure rewrites an earlier verdict, and a finished *)
(* proof survives the poisoning caused by its successor.                   *)
VerdictsStick ==
  [][\A i \in Index :
       slots[i].state \in Finished /\ Serving' =>
         slots'[i] = slots[i] \/ (i = head /\ Len(published') = Delivered + 1)]_vars

(* Requests start in ticket order: none overtakes one that still waits.    *)
StartsOldestFirst ==
  [][\A i \in Index : executing # i /\ executing' = i =>
       \A j \in Queued : slots[i].ticket <= slots[j].ticket]_vars

(* "Runtime.close and Runtime.abort transfer runtime ownership out of the  *)
(* service even when they return an error" (request_service.zig 36-37): so *)
(* the service makes one such call on a runtime, and no other after it.    *)
RuntimeEndedOnce == endCalls <= 1

(* Every accepted request is answered: its verdict is published, or the    *)
(* owner shuts the service down. A poisoning in between does not lose it.  *)
Answered ==
  \A t \in Tickets : t < nextTicket ~> t <= Delivered \/ ~Serving

-----------------------------------------------------------------------------
(* The service implements ProofQueue. A published ticket's verdict is the  *)
(* kind of its publication, an unpublished one's the state of its slot.    *)
SlotOf(t) == slots[Wrap(head + t - Delivered - 1)]
VerdictOf(t) ==
  IF t <= Delivered THEN published[t].kind
  ELSE IF ~Serving THEN "abandoned"
  ELSE LET st == SlotOf(t).state IN
       CASE st = "queued"  -> "waiting"
         [] st = "running" -> "proving"
         [] OTHER          -> Kind[st]

PQ == INSTANCE ProofQueue WITH
        Capacity  <- MaxPending,
        admitted  <- nextTicket - 1,
        verdict   <- [t \in 1 .. nextTicket - 1 |-> VerdictOf(t)],
        delivered <- Delivered,
        mode      <- CASE state = "ready"    -> "serving"
                       [] state = "poisoned" -> "broken"
                       [] OTHER              -> "stopped"

ImplementsProofQueue == PQ!Spec
=============================================================================
