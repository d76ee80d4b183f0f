------------------------ MODULE RequestServiceProofs ------------------------
(***************************************************************************)
(* Proofs, for every ring length, limit and width, about RequestService.   *)
(* The inductive invariant is ServiceInv. The ring is its core: publishing *)
(* from the head and submitting at the tail keep tickets in order only     *)
(* because the live slots are exactly the `count` ones from the head, with *)
(* consecutive tickets; the rest leans on it: one slot per ticket gives    *)
(* the refinement of ProofQueue and the owners of requests and proofs.     *)
(***************************************************************************)
EXTENDS RequestService, TLAPS, FiniteSetTheorems

(* queue_depth is the number of queued slots (a part of TelemetryConserved *)
(* that the type of queueDepth rests on).                                  *)
DepthExact == queueDepth = Cardinality(Queued)

ServiceInv ==
  /\ TypeOK
  /\ RingHoldsUnpublished
  /\ PublishedInOrder
  /\ SingleFlight
  /\ PoisonDrains
  /\ DepthExact

(* What the steps between submission and publication leave alone: every    *)
(* slot keeps its place in the ring, its ticket and whether it is vacant.  *)
InPlace ==
  /\ \A i \in Index : /\ slots'[i].ticket = slots[i].ticket
                      /\ slots[i].state = "vacant" => slots'[i] = slots[i]
                      /\ slots[i].state # "vacant" => slots'[i].state # "vacant"
  /\ UNCHANGED <<head, tail, count, nextTicket, published>>
  /\ Serving /\ Serving'

(* The steps of the owner that leave every slot in its place.              *)
Stationary(now) ==
  \/ \E i \in Index : Start(i, now) \/ StartRefused(i, now) \/ AbortQueued(i, now)
  \/ Settles(now)

-----------------------------------------------------------------------------
(* The ring indices of the code: (index + 1) % slots.len and               *)
(* (head + offset) % slots.len never need more than one wrap.              *)
LEMMA WrapBelow == \A i \in 0 .. MaxPending - 1 : Wrap(i) = i
  BY LimitsAssumption DEF Wrap

LEMMA WrapAbove == \A i \in MaxPending .. 2 * MaxPending - 1 : Wrap(i) = i - MaxPending
  BY LimitsAssumption DEF Wrap

LEMMA WrapType == \A i \in 0 .. 2 * MaxPending - 1 : Wrap(i) \in Index
  BY LimitsAssumption, WrapBelow, WrapAbove DEF Index

(* The set of slots is finite, and so is every set of slots.               *)
LEMMA IndexFinite == ASSUME NEW S \in SUBSET Index PROVE IsFiniteSet(S)
<1>1. IsFiniteSet(Index)
  BY LimitsAssumption, FS_Interval DEF Index
<1> QED BY <1>1, FS_Subset

LEMMA QueuedFinite == IsFiniteSet(Queued) /\ Cardinality(Queued) \in Nat
  BY IndexFinite, FS_CardinalityType DEF Queued

LEMMA ReadingsAreTimes == TypeOK => Readings \subseteq Time
  BY WidthAssumption DEF TypeOK, Readings, Time

-----------------------------------------------------------------------------
LEMMA InitInv == Init => ServiceInv
<1> SUFFICES ASSUME Init PROVE ServiceInv
  OBVIOUS
<1> USE LimitsAssumption, WidthAssumption DEF Init
<1>0. Vacant \in Slot
  BY DEF Vacant, Slot, SlotState, Time, NoTicket
<1>1. TypeOK
  BY <1>0 DEF TypeOK, Index, Tickets, NoIndex, NoTicket, Time, Holder
<1>2. RingHoldsUnpublished
  BY WrapBelow DEF RingHoldsUnpublished, Delivered, Offset, Index, Serving
<1>3. PublishedInOrder
  BY DEF PublishedInOrder, Delivered
<1>4. Queued = {}
  BY DEF Queued, Vacant
<1>5. SingleFlight /\ PoisonDrains
  BY DEF SingleFlight, PoisonDrains, Vacant, NoIndex
<1>6. DepthExact
  BY <1>4, FS_EmptySet DEF DepthExact
<1> QED BY <1>1, <1>2, <1>3, <1>5, <1>6 DEF ServiceInv

(* A slot is in the ring iff it is not vacant, and its ticket is one that  *)
(* was given out and not yet published.                                    *)
LEMMA LiveSlots ==
  ASSUME ServiceInv, NEW i \in Index
  PROVE  /\ slots[i].state # "vacant" => Offset(i) < count
         /\ slots[i].state # "vacant" => slots[i].ticket \in Tickets /\ Serving
         /\ slots[i].state # "vacant" => slots[i].ticket = Delivered + Offset(i) + 1
         /\ Offset(i) < count => slots[i].state # "vacant"
         /\ Offset(i) \in 0 .. MaxPending - 1
<1>1. Vacant.state = "vacant"
  BY DEF Vacant
<1>2. Offset(i) \in 0 .. MaxPending - 1
  BY LimitsAssumption DEF ServiceInv, TypeOK, Offset, Index
<1>3. Delivered \in Nat
  BY DEF ServiceInv, TypeOK, Delivered
<1>4. slots[i].state # "vacant" => Offset(i) < count /\ slots[i].ticket = Delivered + Offset(i) + 1
  BY <1>1 DEF ServiceInv, RingHoldsUnpublished
<1>5. slots[i].state # "vacant" => Serving
  BY <1>2, <1>4 DEF ServiceInv, RingHoldsUnpublished
<1>6. slots[i].state # "vacant" => slots[i].ticket \in Tickets
  BY <1>2, <1>3, <1>4, <1>5, WidthAssumption
     DEF ServiceInv, RingHoldsUnpublished, TypeOK, Tickets
<1> QED BY <1>2, <1>4, <1>5, <1>6 DEF ServiceInv, RingHoldsUnpublished

(* While a request is proved, the service is ready and the slot of the     *)
(* request is the only running one.                                        *)
LEMMA ExecutingSlot ==
  ASSUME ServiceInv, executing # NoIndex
  PROVE  /\ executing \in Index
         /\ slots[executing].state = "running"
         /\ \A i \in Index : slots[i].state = "running" => i = executing
         /\ state = "ready" /\ runtimeOwned
         /\ executing \notin Queued
  BY DEF ServiceInv, TypeOK, SingleFlight, Queued, NoIndex

LEMMA StationaryInPlace ==
  ASSUME ServiceInv, NEW now \in Time, Stationary(now)
  PROVE  InPlace
<1> USE DEF Serving, InPlace
<1>0. slots \in [Index -> Slot] /\ (state \in {"ready", "poisoned", "stopped", "destroyed"})
  BY DEF ServiceInv, TypeOK
<1>1. ASSUME NEW i \in Index, Start(i, now) PROVE InPlace
  BY <1>0, <1>1 DEF Start, OldestQueued, Queued, ring, fates, Slot
<1>2. ASSUME NEW i \in Index, StartRefused(i, now) PROVE InPlace
  BY <1>0, <1>2 DEF StartRefused, OldestQueued, Queued, ring, fates, Slot
<1>3. ASSUME NEW i \in Index, AbortQueued(i, now) PROVE InPlace
  BY <1>0, <1>3 DEF AbortQueued, OwnerFree, Canceled, Queued, ring, fates, Slot
<1>4. CASE Complete(now)
  <2>1. executing # NoIndex BY <1>4 DEF Complete
  <2> QED BY <1>0, <1>4, <2>1, ExecutingSlot DEF Complete, Settled, ring, fates, Slot
<1>5. CASE FailRequest(now)
  <2>1. executing # NoIndex BY <1>5 DEF FailRequest
  <2> QED BY <1>0, <1>5, <2>1, ExecutingSlot DEF FailRequest, Settled, ring, fates, Slot
<1>6. ASSUME NEW made \in BOOLEAN, NEW accounted \in BOOLEAN, Poison(made, accounted, now)
      PROVE InPlace
  <2>1. executing # NoIndex BY <1>6 DEF Poison
  <2>2. state' = "poisoned" /\ UNCHANGED <<head, tail, count, nextTicket, published>>
    BY <1>6 DEF Poison, AbortRuntime, ring
  <2> QED BY <1>0, <1>6, <2>1, <2>2, ExecutingSlot
          DEF Poison, Settled, Canceled, CanceledByPoison, Queued, Slot
<1> QED BY <1>1, <1>2, <1>3, <1>4, <1>5, <1>6 DEF Stationary, Settles

-----------------------------------------------------------------------------
(* Type correctness, action by action.                                     *)

(* What the code does to a slot it keeps leaves it a slot.                 *)
LEMMA SlotTypes ==
  ASSUME NEW s \in Slot, NEW now \in Time
  PROVE  /\ Canceled(s, now) \in Slot
         /\ [s EXCEPT !.started = now] \in Slot
         /\ [s EXCEPT !.state = "running", !.started = now] \in Slot
         /\ \A result \in SlotState, made \in BOOLEAN, finish \in Time :
              Settled(s, result, made, finish) \in Slot
  BY DEF Slot, SlotState, Canceled, Settled

LEMMA FreeRequestsType ==
  ASSUME TypeOK, NEW S, FreeRequests(S)
  PROVE  requestAt' \in [Tickets -> Holder]
  BY DEF TypeOK, FreeRequests, Free, Holder

LEMMA DestroySlotsType ==
  ASSUME TypeOK, DestroySlots
  PROVE  /\ slots' = [i \in Index |-> Vacant] /\ slots' \in [Index -> Slot]
         /\ head' = 0 /\ tail' = 0 /\ count' = 0 /\ activeTicket' = NoTicket
         /\ queueDepth' = 0
         /\ requestAt' \in [Tickets -> Holder] /\ proofAt' \in [Tickets -> Holder]
<1>1. Vacant \in Slot
  BY WidthAssumption DEF Vacant, Slot, SlotState, Time, NoTicket
<1>2. requestAt' \in [Tickets -> Holder]
  BY FreeRequestsType DEF DestroySlots
<1>3. proofAt' \in [Tickets -> Holder]
  BY DEF DestroySlots, FreeProofs, Free, TypeOK, Holder
<1> QED BY <1>1, <1>2, <1>3 DEF DestroySlots

LEMMA SubmitType ==
  ASSUME ServiceInv, NEW device \in DeviceSizes, NEW retained \in InputSizes, NEW now \in Time,
         Submit(device, retained, now)
  PROVE  TypeOK'
<1> USE LimitsAssumption, WidthAssumption DEF ServiceInv, TypeOK
<1>1. nextTicket < MaxTicket /\ count < MaxPending /\ nextTicket \in Tickets
  BY DEF Submit, Admissible, HasRoom, Tickets
<1>2. slots' \in [Index -> Slot]
  <2>1. [state |-> "queued", request |-> TRUE, proof |-> FALSE,
         ticket |-> nextTicket, generation |-> generation, retained |-> retained,
         admitted |-> now, started |-> 0, finished |-> 0] \in Slot
    BY DEF Slot, SlotState, Time
  <2> QED BY <2>1 DEF Submit, NextSlot
<1>3. tail' \in Index
  BY WrapType DEF Submit, Index
<1>4. requestAt' \in [Tickets -> Holder]
  BY <1>1 DEF Submit, Holder
<1>5. nextTicket' \in 1 .. MaxTicket /\ count' \in 0 .. MaxPending /\ queueDepth' \in Nat
      /\ clock' \in Time
  BY <1>1 DEF Submit
<1> QED BY <1>2, <1>3, <1>4, <1>5 DEF Submit, runtime, tally

LEMMA PublishType ==
  ASSUME ServiceInv, PublishNext
  PROVE  TypeOK'
<1> USE LimitsAssumption, WidthAssumption
<1>1. slots[head].ticket \in Tickets /\ slots[head].state \in Finished
  BY LiveSlots DEF PublishNext, Finished, ServiceInv, TypeOK
<1>2. Vacant \in Slot
  BY DEF Vacant, Slot, SlotState, Time, NoTicket
<1>3. head' \in Index
  BY WrapType DEF PublishNext, NextHead, ServiceInv, TypeOK, Index
<1>4. published' \in Seq([ticket : Tickets, kind : {"proof", "failure", "canceled"}])
  BY <1>1 DEF PublishNext, Kind, Finished, ServiceInv, TypeOK
<1>5. proofAt' \in [Tickets -> Holder]
  BY DEF PublishNext, ServiceInv, TypeOK, Holder
<1>6. count' \in 0 .. MaxPending
  BY DEF PublishNext, ServiceInv, TypeOK
<1> QED BY <1>2, <1>3, <1>4, <1>5, <1>6 DEF PublishNext, ServiceInv, TypeOK, runtime, tally

LEMMA AbortRuntimeType ==
  ASSUME TypeOK, NEW calls \in {0, 1}, AbortRuntime(calls)
  PROVE  state' = "poisoned" /\ runtimeOwned' = FALSE /\ endCalls' \in Nat
  BY DEF TypeOK, AbortRuntime

LEMMA StationaryType ==
  ASSUME ServiceInv, NEW now \in Time, Stationary(now)
  PROVE  TypeOK'
<1>0. TypeOK
  BY DEF ServiceInv
<1>1. ASSUME NEW i \in Index, i \in Queued PROVE queueDepth - 1 \in Nat
  <2>1. Cardinality(Queued) # 0
    BY <1>1, QueuedFinite, FS_EmptySet
  <2> QED BY <2>1, QueuedFinite DEF ServiceInv, DepthExact
<1>2. ASSUME NEW i \in Index, Start(i, now) PROVE TypeOK'
  <2>0. slots \in [Index -> Slot] /\ slots[i] \in Slot
    BY DEF ServiceInv, TypeOK
  <2>1. slots' \in [Index -> Slot] /\ slots[i].ticket \in 0 .. MaxTicket
    <3>1. slots' = [slots EXCEPT ![i] = [slots[i] EXCEPT !.state = "running", !.started = now]]
      BY <1>2, <2>0 DEF Start
    <3>2. [slots[i] EXCEPT !.state = "running", !.started = now] \in Slot
      BY <2>0, SlotTypes
    <3> QED BY <2>0, <3>1, <3>2 DEF Slot
  <2>2. queueDepth' \in Nat
    BY <1>1, <1>2 DEF Start, OldestQueued
  <2>3. /\ activeTicket' \in 0 .. MaxTicket /\ executing' \in Index \union {NoIndex}
        /\ started' \in Nat /\ clock' \in Time
    BY <1>0, <1>2, <2>1 DEF Start, TypeOK
  <2>4. UNCHANGED <<ring, nextTicket, state, runtime, queuedBytes, completed, failed, canceled, fates>>
    BY <1>2 DEF Start
  <2> QED BY <1>0, <2>1, <2>2, <2>3, <2>4 DEF TypeOK, ring, runtime, fates
<1>3. ASSUME NEW i \in Index, StartRefused(i, now) PROVE TypeOK'
  <2>1. slots' \in [Index -> Slot]
    BY <1>3 DEF StartRefused, ServiceInv, TypeOK, Slot
  <2> QED BY <1>0, <1>3, <2>1 DEF StartRefused, TypeOK, ring, runtime, tally, fates
<1>4. ASSUME NEW i \in Index, AbortQueued(i, now) PROVE TypeOK'
  <2>1. slots' \in [Index -> Slot]
    BY <1>4, SlotTypes DEF AbortQueued, ServiceInv, TypeOK
  <2>2. queueDepth' \in Nat
    BY <1>1, <1>4 DEF AbortQueued
  <2>3. requestAt' \in [Tickets -> Holder]
    BY <1>4, FreeRequestsType DEF AbortQueued, ServiceInv
  <2> QED BY <1>0, <1>4, <2>1, <2>2, <2>3 DEF AbortQueued, TypeOK, ring, runtime
<1>5. ASSUME executing # NoIndex, Settle
      PROVE  /\ requestAt' \in [Tickets -> Holder]
             /\ activeTicket' = NoTicket /\ executing' = NoIndex
  BY <1>5, FreeRequestsType DEF Settle, ServiceInv
<1>6. CASE Complete(now)
  <2>1. executing \in Index /\ slots[executing] \in Slot
    BY <1>6, ExecutingSlot DEF Complete, ServiceInv, TypeOK
  <2>2. slots' \in [Index -> Slot]
    BY <1>6, <2>1, SlotTypes DEF Complete, ServiceInv, TypeOK, SlotState
  <2>3. proofAt' \in [Tickets -> Holder]
    BY <1>6 DEF Complete, ServiceInv, TypeOK, Holder
  <2>4. requestAt' \in [Tickets -> Holder] /\ activeTicket' = NoTicket /\ executing' = NoIndex
    BY <1>5, <1>6 DEF Complete
  <2>5. /\ completed' = completed + 1 /\ clock' = now
        /\ UNCHANGED <<head, tail, count, nextTicket, state, runtimeOwned, generation, endCalls,
                       queueDepth, started, failed, canceled, published>>
    BY <1>6 DEF Complete, ring, runtime
  <2> QED BY <1>0, <2>2, <2>3, <2>4, <2>5, WidthAssumption DEF TypeOK, NoTicket
<1>7. CASE FailRequest(now)
  <2>1. executing \in Index /\ slots[executing] \in Slot
    BY <1>7, ExecutingSlot DEF FailRequest, ServiceInv, TypeOK
  <2>2. slots' \in [Index -> Slot]
    BY <1>7, <2>1, SlotTypes DEF FailRequest, ServiceInv, TypeOK, SlotState
  <2>3. requestAt' \in [Tickets -> Holder] /\ activeTicket' = NoTicket /\ executing' = NoIndex
    BY <1>5, <1>7 DEF FailRequest
  <2>4. /\ failed' = failed + 1 /\ clock' = now
        /\ UNCHANGED <<head, tail, count, nextTicket, state, runtimeOwned, generation, endCalls,
                       queueDepth, started, completed, canceled, published, proofAt>>
    BY <1>7 DEF FailRequest, ring, runtime
  <2> QED BY <1>0, <2>2, <2>3, <2>4, WidthAssumption DEF TypeOK, NoTicket
<1>8. ASSUME NEW made \in BOOLEAN, NEW accounted \in BOOLEAN, Poison(made, accounted, now)
      PROVE TypeOK'
  <2>1. executing \in Index /\ slots[executing] \in Slot
    BY <1>8, ExecutingSlot DEF Poison, ServiceInv, TypeOK
  <2>2. slots' \in [Index -> Slot]
    <3> DEFINE finish == IF accounted THEN now ELSE slots[executing].finished
    <3>1. finish \in Time
      BY <2>1 DEF Slot
    <3>2. Settled(slots[executing], "failed", FALSE, finish) \in Slot
      BY <2>1, <3>1, SlotTypes DEF SlotState
    <3>3. \A i \in Index : slots[i] \in Slot /\ Canceled(slots[i], now) \in Slot
      BY SlotTypes DEF ServiceInv, TypeOK
    <3>4. slots' = [i \in Index |->
                      CASE i = executing -> Settled(slots[executing], "failed", FALSE, finish)
                        [] i \in CanceledByPoison -> Canceled(slots[i], now)
                        [] OTHER -> slots[i]]
      BY <1>8 DEF Poison
    <3> HIDE DEF finish
    <3> QED BY <3>2, <3>3, <3>4
  <2>3. queueDepth' \in Nat /\ canceled' \in Nat /\ failed' \in Nat
    <3>1. /\ queueDepth' = queueDepth - Cardinality(Queued)
          /\ canceled' = canceled + Cardinality(Queued) /\ failed' = failed + 1
      BY <1>8 DEF Poison, CanceledByPoison
    <3>2. queueDepth = Cardinality(Queued)
      BY DEF ServiceInv, DepthExact
    <3> QED BY <1>0, <3>1, <3>2, QueuedFinite DEF TypeOK
  <2>4. requestAt' \in [Tickets -> Holder]
    BY <1>8, FreeRequestsType DEF Poison, ServiceInv
  <2>5. proofAt' \in [Tickets -> Holder]
    BY <1>8 DEF Poison, ServiceInv, TypeOK, Holder
  <2>6. state' = "poisoned" /\ runtimeOwned' = FALSE /\ endCalls' \in Nat
    <3>1. AbortRuntime(0)
      BY <1>8 DEF Poison
    <3> QED BY <1>0, <3>1, AbortRuntimeType
  <2>7. /\ activeTicket' = NoTicket /\ executing' = NoIndex /\ clock' = now
        /\ UNCHANGED <<head, tail, count, nextTicket, generation, started, completed, published>>
    BY <1>8 DEF Poison, ring
  <2>8. runtimeOwned' = FALSE /\ activeTicket' \in 0 .. MaxTicket
    BY <2>6, <2>7, WidthAssumption DEF NoTicket
  <2> QED BY <1>0, <2>2, <2>3, <2>4, <2>5, <2>6, <2>7, <2>8 DEF TypeOK
<1> QED BY <1>2, <1>3, <1>4, <1>6, <1>7, <1>8 DEF Stationary, Settles

LEMMA LifecycleType ==
  ASSUME ServiceInv, Close \/ CloseFails \/ AbortAll \/ Reset \/ Deinit
  PROVE  TypeOK'
<1>0. TypeOK
  BY DEF ServiceInv
<1>1. CASE Close
  <2>1. runtimeOwned' \in BOOLEAN
    BY <1>1 DEF Close
  <2>2. /\ endCalls' = endCalls + 1 /\ state' = "stopped"
        /\ UNCHANGED <<slots, head, tail, count, activeTicket, nextTicket, generation, queueDepth,
                       started, completed, failed, canceled, executing, clock, published,
                       requestAt, proofAt>>
    BY <1>1 DEF Close, ring, tally, fates
  <2> QED BY <1>0, <2>1, <2>2 DEF TypeOK
<1>2. CASE CloseFails
  <2>1. state' = "poisoned" /\ runtimeOwned' = FALSE /\ endCalls' \in Nat
    BY <1>0, <1>2, AbortRuntimeType DEF CloseFails
  <2> QED BY <1>0, <1>2, <2>1 DEF CloseFails, TypeOK, ring, tally, fates
<1>3. ASSUME DestroySlots, state' \in {"stopped", "destroyed"}, runtimeOwned' = FALSE,
             endCalls' = endCalls + (IF runtimeOwned THEN 1 ELSE 0),
             UNCHANGED <<nextTicket, generation, tally, executing, clock, published>>
      PROVE TypeOK'
  <2>1. endCalls' \in Nat
    BY <1>0, <1>3 DEF TypeOK
  <2>2. 0 \in Index /\ 0 \in 0 .. MaxPending /\ NoTicket \in 0 .. MaxTicket
    BY LimitsAssumption, WidthAssumption DEF Index, NoTicket
  <2>3. /\ slots' \in [Index -> Slot]
        /\ head' = 0 /\ tail' = 0 /\ count' = 0 /\ activeTicket' = NoTicket
        /\ queueDepth' = 0
        /\ requestAt' \in [Tickets -> Holder] /\ proofAt' \in [Tickets -> Holder]
    BY <1>0, <1>3, DestroySlotsType
  <2>4. /\ runtimeOwned' \in BOOLEAN /\ state' \in {"stopped", "destroyed"}
        /\ UNCHANGED <<nextTicket, generation, started, completed, failed, canceled, executing,
                       clock, published>>
    BY <1>3 DEF tally
  <2> QED BY <1>0, <2>1, <2>2, <2>3, <2>4 DEF TypeOK
<1>4. CASE AbortAll \/ Deinit
  BY <1>3, <1>4 DEF AbortAll, Deinit
<1>5. CASE Reset
  BY <1>0, <1>5, WidthAssumption DEF Reset, TypeOK, ring, tally, fates
<1> QED BY <1>1, <1>2, <1>4, <1>5

(* Every step of Next, with its reading of the clock.                      *)
LEMMA NextCases ==
  ASSUME TypeOK, Next
  PROVE  \/ \E device \in DeviceSizes, retained \in InputSizes, now \in Time :
              Submit(device, retained, now)
         \/ \E now \in Time : Stationary(now)
         \/ PublishNext
         \/ Close \/ CloseFails \/ AbortAll \/ Reset \/ Deinit
  BY ReadingsAreTimes DEF Next, Stationary

LEMMA TypeStep == ServiceInv /\ [Next]_vars => TypeOK'
<1> SUFFICES ASSUME ServiceInv, [Next]_vars PROVE TypeOK'
  OBVIOUS
<1>1. CASE Next
  BY <1>1, NextCases, SubmitType, StationaryType, PublishType, LifecycleType DEF ServiceInv
<1>2. CASE UNCHANGED vars
  BY <1>2 DEF vars, ring, runtime, tally, fates, ServiceInv, TypeOK
<1> QED BY <1>1, <1>2

-----------------------------------------------------------------------------
(* The ring.                                                               *)

LEMMA SubmitRing ==
  ASSUME ServiceInv, NEW device, NEW retained, NEW now, Submit(device, retained, now)
  PROVE  RingHoldsUnpublished'
<1> USE LimitsAssumption
<1>0. TypeOK /\ RingHoldsUnpublished
  BY DEF ServiceInv
<1>1. state = "ready" /\ count < MaxPending /\ Serving
  BY <1>0 DEF Submit, Admissible, HasRoom, Serving, TypeOK
<1>2. head \in Index /\ count \in Nat /\ MaxPending \in Nat /\ Delivered \in Nat
  BY <1>0 DEF TypeOK, Delivered
<1>3. tail = IF head + count < MaxPending THEN head + count ELSE head + count - MaxPending
  BY <1>0, <1>1, <1>2, WrapBelow, WrapAbove DEF RingHoldsUnpublished, Index
<1>4. tail \in Index /\ Offset(tail) = count
  BY <1>1, <1>2, <1>3 DEF Offset, Index
<1>5. \A i \in Index : i # tail => Offset(i) # count
  BY <1>1, <1>2, <1>3 DEF Offset, Index
<1>6. /\ tail' = Wrap(tail + 1) /\ count' = count + 1 /\ nextTicket' = nextTicket + 1
      /\ head' = head /\ Delivered' = Delivered /\ state' = state
      /\ \A i \in Index : Offset(i)' = Offset(i)
  BY DEF Submit, Delivered, Offset
<1>7. tail' = Wrap(head' + count')
  BY <1>1, <1>2, <1>3, <1>6, WrapBelow, WrapAbove DEF Index
<1>8. \A i \in Index : i # tail => slots'[i] = slots[i]
  BY <1>0, <1>4 DEF Submit, NextSlot, TypeOK
<1>9. slots'[tail].state = "queued" /\ slots'[tail].ticket = nextTicket
  BY <1>0, <1>4 DEF Submit, NextSlot, TypeOK
<1>10. \A i \in Index : IF Offset(i) < count + 1
         THEN slots'[i].state # "vacant" /\ slots'[i].ticket = Delivered + Offset(i) + 1
         ELSE slots'[i] = Vacant
  <2> SUFFICES ASSUME NEW i \in Index
      PROVE IF Offset(i) < count + 1
            THEN slots'[i].state # "vacant" /\ slots'[i].ticket = Delivered + Offset(i) + 1
            ELSE slots'[i] = Vacant
    OBVIOUS
  <2>1. CASE i = tail
    BY <1>0, <1>1, <1>2, <1>4, <1>9, <2>1 DEF RingHoldsUnpublished
  <2>2. CASE i # tail
    <3>1. Offset(i) \in Nat
      BY <1>2 DEF Offset, Index
    <3>2. Offset(i) < count + 1 <=> Offset(i) < count
      BY <1>2, <1>5, <2>2, <3>1
    <3> QED BY <1>0, <1>8, <2>2, <3>2 DEF RingHoldsUnpublished
  <2> QED BY <2>1, <2>2
<1>11. nextTicket' = Delivered' + count' + 1
  BY <1>0, <1>1, <1>2, <1>6 DEF RingHoldsUnpublished
<1> QED BY <1>1, <1>6, <1>7, <1>10, <1>11 DEF RingHoldsUnpublished, Serving

LEMMA PublishRing ==
  ASSUME ServiceInv, PublishNext
  PROVE  RingHoldsUnpublished'
<1> USE LimitsAssumption
<1>0. TypeOK /\ RingHoldsUnpublished
  BY DEF ServiceInv
<1>1. /\ head \in Index /\ count \in 1 .. MaxPending /\ Delivered \in Nat
  BY <1>0 DEF PublishNext, TypeOK, Delivered
<1>2. /\ head' = Wrap(head + 1) /\ count' = count - 1 /\ tail' = tail
      /\ nextTicket' = nextTicket /\ state' = state /\ slots' = [slots EXCEPT ![head] = Vacant]
  BY DEF PublishNext, NextHead
<1>3. Delivered' = Delivered + 1
  BY <1>0 DEF PublishNext, Delivered, TypeOK
<1>4. head' = IF head + 1 < MaxPending THEN head + 1 ELSE 0
  BY <1>1, <1>2, WrapBelow, WrapAbove DEF Index
<1>5. \A i \in Index : Offset(i)' = IF i = head THEN MaxPending - 1 ELSE Offset(i) - 1
  BY <1>1, <1>4 DEF Offset, Index
<1>6. tail' = Wrap(head' + count')
  BY <1>0, <1>1, <1>2, <1>4, WrapBelow, WrapAbove DEF RingHoldsUnpublished, Index
<1>7. \A i \in Index : IF Offset(i)' < count - 1
         THEN slots'[i].state # "vacant" /\ slots'[i].ticket = Delivered + 1 + Offset(i)' + 1
         ELSE slots'[i] = Vacant
  <2> SUFFICES ASSUME NEW i \in Index
      PROVE IF Offset(i)' < count - 1
            THEN slots'[i].state # "vacant" /\ slots'[i].ticket = Delivered + 1 + Offset(i)' + 1
            ELSE slots'[i] = Vacant
    OBVIOUS
  <2>1. CASE i = head
    BY <1>0, <1>1, <1>2, <1>5, <2>1 DEF TypeOK
  <2>2. CASE i # head
    <3>1. Offset(i) \in Nat /\ slots'[i] = slots[i] /\ Offset(i)' = Offset(i) - 1
      BY <1>0, <1>1, <1>2, <1>5, <2>2 DEF Offset, Index, TypeOK
    <3>2. Offset(i)' < count - 1 <=> Offset(i) < count
      BY <1>1, <3>1
    <3>3. Delivered + 1 + Offset(i)' + 1 = Delivered + Offset(i) + 1
      BY <1>1, <3>1
    <3> QED BY <1>0, <3>1, <3>2, <3>3 DEF RingHoldsUnpublished
  <2> QED BY <2>1, <2>2
<1>8. Serving' <=> Serving
  BY <1>2 DEF Serving
<1>9. Serving /\ nextTicket = Delivered + count + 1
  BY <1>0, <1>1 DEF RingHoldsUnpublished
<1>10. nextTicket' = Delivered' + count' + 1
  BY <1>1, <1>2, <1>3, <1>9
<1> QED BY <1>2, <1>3, <1>6, <1>7, <1>8, <1>9, <1>10 DEF RingHoldsUnpublished

LEMMA InPlaceRing ==
  ASSUME ServiceInv, InPlace
  PROVE  RingHoldsUnpublished'
<1>1. /\ Delivered' = Delivered /\ \A i \in Index : Offset(i)' = Offset(i)
  BY DEF InPlace, Delivered, Offset
<1>2. Vacant.state = "vacant"
  BY DEF Vacant
<1>3. \A i \in Index : IF Offset(i) < count
         THEN slots'[i].state # "vacant" /\ slots'[i].ticket = Delivered + Offset(i) + 1
         ELSE slots'[i] = Vacant
  BY <1>2 DEF ServiceInv, RingHoldsUnpublished, InPlace
<1> QED BY <1>1, <1>3 DEF ServiceInv, RingHoldsUnpublished, InPlace

(* A shutdown empties the ring; close and reset find it empty.             *)
LEMMA LifecycleRing ==
  ASSUME ServiceInv, Close \/ CloseFails \/ AbortAll \/ Reset \/ Deinit
  PROVE  RingHoldsUnpublished'
<1> USE LimitsAssumption
<1>0. TypeOK /\ RingHoldsUnpublished
  BY DEF ServiceInv
<1>1. ASSUME state \in {"ready", "poisoned"}, count = 0,
             UNCHANGED <<slots, ring, nextTicket, published>>
      PROVE RingHoldsUnpublished'
  <2>1. Delivered' = Delivered /\ \A i \in Index : Offset(i)' = Offset(i)
    BY <1>1 DEF Delivered, Offset, ring
  <2>2. Serving
    BY <1>1 DEF Serving
  <2> QED BY <1>0, <1>1, <2>1, <2>2 DEF RingHoldsUnpublished, ring
<1>2. CASE Close \/ CloseFails \/ Reset
  BY <1>1, <1>2 DEF Close, CloseFails, Reset, CanReset, Drained, fates
<1>3. CASE AbortAll \/ Deinit
  <2>1. /\ slots' = [i \in Index |-> Vacant] /\ head' = 0 /\ tail' = 0 /\ count' = 0
        /\ state' \in {"stopped", "destroyed"} /\ published' = published
    BY <1>3 DEF AbortAll, Deinit, DestroySlots
  <2>2. \A i \in Index : Offset(i)' \in Nat
    BY <2>1 DEF Offset, Index
  <2>3. tail' = Wrap(head' + count')
    BY <2>1, WrapBelow
  <2>4. ~Serving'
    BY <2>1 DEF Serving
  <2> QED BY <2>1, <2>2, <2>3, <2>4 DEF RingHoldsUnpublished
<1> QED BY <1>2, <1>3

LEMMA RingStep == ServiceInv /\ [Next]_vars => RingHoldsUnpublished'
<1> SUFFICES ASSUME ServiceInv, [Next]_vars PROVE RingHoldsUnpublished'
  OBVIOUS
<1>1. CASE Next
  BY <1>1, NextCases, SubmitRing, StationaryInPlace, InPlaceRing, PublishRing, LifecycleRing
     DEF ServiceInv
<1>2. CASE UNCHANGED vars
  BY <1>2 DEF vars, ring, fates, ServiceInv, RingHoldsUnpublished, Delivered, Offset, Serving
<1> QED BY <1>1, <1>2

-----------------------------------------------------------------------------
(* Order of publication.                                                   *)

LEMMA OrderStep == ServiceInv /\ [Next]_vars => PublishedInOrder'
<1> SUFFICES ASSUME ServiceInv, [Next]_vars PROVE PublishedInOrder'
  OBVIOUS
<1>0. TypeOK /\ PublishedInOrder
  BY DEF ServiceInv
<1>1. ASSUME published' = published PROVE PublishedInOrder'
  BY <1>0, <1>1 DEF PublishedInOrder, Delivered
<1>2. CASE PublishNext
  <2>1. head \in Index /\ Offset(head) = 0 /\ Delivered \in Nat
    BY <1>0, LimitsAssumption DEF Offset, TypeOK, Delivered, Index
  <2>2. slots[head].ticket = Delivered + 1
    BY <1>2, <2>1, LiveSlots DEF PublishNext, Finished
  <2>3. published' = Append(published, [ticket |-> Delivered + 1, kind |-> Kind[slots[head].state]])
    BY <1>2, <2>2 DEF PublishNext
  <2>4. Delivered' = Delivered + 1
        /\ \A n \in 1 .. Delivered + 1 :
             published'[n] = IF n <= Delivered THEN published[n]
                             ELSE [ticket |-> Delivered + 1, kind |-> Kind[slots[head].state]]
    BY <1>0, <2>3 DEF Delivered, TypeOK
  <2> QED BY <1>0, <2>1, <2>4 DEF PublishedInOrder
<1>3. CASE Next /\ ~PublishNext
  <2>1. ASSUME NEW device, NEW retained, NEW now, Submit(device, retained, now)
        PROVE published' = published
    BY <2>1 DEF Submit
  <2>2. ASSUME NEW now \in Time, Stationary(now) PROVE published' = published
    BY <2>2, StationaryInPlace DEF InPlace
  <2>3. ASSUME Close \/ CloseFails \/ AbortAll \/ Reset \/ Deinit PROVE published' = published
    BY <2>3 DEF Close, CloseFails, AbortAll, Reset, Deinit, fates
  <2> QED BY <1>0, <1>1, <1>3, <2>1, <2>2, <2>3, NextCases
<1>4. CASE UNCHANGED vars
  BY <1>1, <1>4 DEF vars, fates
<1> QED BY <1>2, <1>3, <1>4

-----------------------------------------------------------------------------
(* One request at a time.                                                  *)

(* A submission lands on a vacant slot, so never on the running one.       *)
LEMMA SubmitSlot ==
  ASSUME ServiceInv, NEW device, NEW retained, NEW now, Submit(device, retained, now)
  PROVE  /\ tail \in Index /\ slots[tail].state = "vacant"
         /\ slots'[tail].state = "queued" /\ slots'[tail].generation = generation
         /\ \A i \in Index : i # tail => slots'[i] = slots[i]
         /\ state = "ready" /\ state' = "ready"
<1> USE LimitsAssumption
<1>0. TypeOK /\ RingHoldsUnpublished
  BY DEF ServiceInv
<1>1. state = "ready" /\ count < MaxPending
  BY <1>0 DEF Submit, Admissible, HasRoom, TypeOK
<1>2. tail = IF head + count < MaxPending THEN head + count ELSE head + count - MaxPending
  BY <1>0, <1>1, WrapBelow, WrapAbove DEF RingHoldsUnpublished, TypeOK, Index
<1>3. tail \in Index /\ Offset(tail) = count
  BY <1>0, <1>1, <1>2 DEF Offset, Index, TypeOK
<1>4. slots[tail].state = "vacant"
  BY <1>0, <1>3 DEF RingHoldsUnpublished, TypeOK, Vacant
<1> QED BY <1>0, <1>1, <1>3, <1>4 DEF Submit, NextSlot, TypeOK

(* Settling finishes the running slot and, when it poisons the runtime,    *)
(* cancels the queued ones; every other slot keeps its value.              *)
LEMMA SettlesSlots ==
  ASSUME ServiceInv, NEW now \in Time, Settles(now)
  PROVE  /\ executing \in Index /\ slots[executing].state = "running"
         /\ executing' = NoIndex /\ activeTicket' = NoTicket
         /\ slots'[executing].state \in {"completed", "failed"}
         /\ slots'[executing].request = FALSE
         /\ slots'[executing].generation = slots[executing].generation
         /\ generation' = generation /\ nextTicket' = nextTicket
         /\ \A j \in Index : j # executing =>
              \/ slots'[j] = slots[j] /\ (state' = "poisoned" => j \notin Queued)
              \/ j \in Queued /\ slots'[j] = Canceled(slots[j], now) /\ state' = "poisoned"
<1>0. slots \in [Index -> Slot]
  BY DEF ServiceInv, TypeOK
<1>1. executing # NoIndex
  BY DEF Settles, Complete, FailRequest, Poison
<1>2. executing \in Index /\ slots[executing].state = "running" /\ slots[executing] \in Slot
      /\ state = "ready" /\ executing \notin Queued
  BY <1>0, <1>1, ExecutingSlot
<1>4. CASE Complete(now)
  <2>1. slots' = [slots EXCEPT ![executing] = Settled(slots[executing], "completed", TRUE, now)]
    BY <1>4 DEF Complete
  <2>2. state' = state /\ executing' = NoIndex /\ activeTicket' = NoTicket
        /\ generation' = generation /\ nextTicket' = nextTicket
    BY <1>4 DEF Complete, Settle, runtime
  <2>3. /\ slots'[executing] = Settled(slots[executing], "completed", TRUE, now)
        /\ \A j \in Index : j # executing => slots'[j] = slots[j]
    BY <1>0, <1>2, <2>1
  <2>4. /\ slots'[executing].state = "completed" /\ slots'[executing].request = FALSE
        /\ slots'[executing].generation = slots[executing].generation
    BY <1>2, <2>3 DEF Settled, Slot
  <2> QED BY <1>2, <2>2, <2>3, <2>4
<1>5. CASE FailRequest(now)
  <2>1. slots' = [slots EXCEPT ![executing] = Settled(slots[executing], "failed", FALSE, now)]
    BY <1>5 DEF FailRequest
  <2>2. state' = state /\ executing' = NoIndex /\ activeTicket' = NoTicket
        /\ generation' = generation /\ nextTicket' = nextTicket
    BY <1>5 DEF FailRequest, Settle, runtime
  <2>3. /\ slots'[executing] = Settled(slots[executing], "failed", FALSE, now)
        /\ \A j \in Index : j # executing => slots'[j] = slots[j]
    BY <1>0, <1>2, <2>1
  <2>4. /\ slots'[executing].state = "failed" /\ slots'[executing].request = FALSE
        /\ slots'[executing].generation = slots[executing].generation
    BY <1>2, <2>3 DEF Settled, Slot
  <2> QED BY <1>2, <2>2, <2>3, <2>4
<1>6. ASSUME NEW made \in BOOLEAN, NEW accounted \in BOOLEAN, Poison(made, accounted, now)
      PROVE /\ slots'[executing].state = "failed" /\ slots'[executing].request = FALSE
            /\ slots'[executing].generation = slots[executing].generation
            /\ executing' = NoIndex /\ activeTicket' = NoTicket
            /\ generation' = generation /\ nextTicket' = nextTicket
            /\ \A j \in Index : j # executing =>
                 \/ slots'[j] = slots[j] /\ j \notin Queued
                 \/ j \in Queued /\ slots'[j] = Canceled(slots[j], now) /\ state' = "poisoned"
  <2> DEFINE finish == IF accounted THEN now ELSE slots[executing].finished
  <2>1. slots' = [i \in Index |->
                    CASE i = executing -> Settled(slots[executing], "failed", FALSE, finish)
                      [] i \in Queued -> Canceled(slots[i], now)
                      [] OTHER -> slots[i]]
    BY <1>6 DEF Poison, CanceledByPoison
  <2>2. state' = "poisoned" /\ executing' = NoIndex /\ activeTicket' = NoTicket
        /\ generation' = generation /\ nextTicket' = nextTicket
    BY <1>6 DEF Poison, AbortRuntime
  <2>3. slots'[executing] = Settled(slots[executing], "failed", FALSE, finish)
    BY <1>2, <2>1
  <2>4. \A j \in Index : j # executing =>
          slots'[j] = IF j \in Queued THEN Canceled(slots[j], now) ELSE slots[j]
    BY <2>1
  <2> HIDE DEF finish
  <2>5. /\ slots'[executing].state = "failed" /\ slots'[executing].request = FALSE
        /\ slots'[executing].generation = slots[executing].generation
    BY <1>2, <2>3 DEF Settled, Slot
  <2> QED BY <2>2, <2>4, <2>5
<1> QED BY <1>2, <1>4, <1>5, <1>6 DEF Settles

LEMMA FlightStep == ServiceInv /\ [Next]_vars => SingleFlight'
<1> SUFFICES ASSUME ServiceInv, [Next]_vars PROVE SingleFlight'
  OBVIOUS
<1>0. TypeOK /\ SingleFlight
  BY DEF ServiceInv
<1>1. executing \in Index \union {NoIndex} /\ NoIndex \notin Index
  BY <1>0 DEF TypeOK, NoIndex, Index
<1>2. ASSUME NEW device, NEW retained, NEW now, Submit(device, retained, now)
      PROVE SingleFlight'
  <2>1. \A i \in Index : slots'[i].state = "running" <=> slots[i].state = "running"
    BY <1>2, SubmitSlot
  <2>2. executing \in Index => slots'[executing] = slots[executing]
    BY <1>2, SubmitSlot, <1>1, ExecutingSlot
  <2>3. UNCHANGED <<activeTicket, executing, runtimeOwned, state>>
    BY <1>2 DEF Submit, runtime
  <2> QED BY <1>0, <1>1, <2>1, <2>2, <2>3 DEF SingleFlight
<1>3. ASSUME NEW now \in Time, NEW i \in Index, Start(i, now) PROVE SingleFlight'
  <2>1. executing = NoIndex /\ state = "ready" /\ state' = "ready" /\ runtimeOwned' = runtimeOwned
    BY <1>3 DEF Start, OwnerFree, runtime
  <2>2. runtimeOwned
    BY <2>1 DEF ServiceInv, PoisonDrains
  <2>3. /\ slots'[i].state = "running" /\ slots'[i].ticket = slots[i].ticket
        /\ \A j \in Index : j # i => slots'[j] = slots[j]
    BY <1>0, <1>3 DEF Start, TypeOK, Slot
  <2>4. executing' = i /\ activeTicket' = slots[i].ticket
    BY <1>3 DEF Start
  <2> QED BY <1>0, <1>1, <2>1, <2>2, <2>3, <2>4 DEF SingleFlight
<1>4. ASSUME UNCHANGED <<activeTicket, executing, runtimeOwned, state>>,
             \A j \in Index : /\ slots'[j].state = "running" <=> slots[j].state = "running"
                              /\ slots'[j].ticket = slots[j].ticket \/ executing # j
      PROVE SingleFlight'
  BY <1>0, <1>1, <1>4 DEF SingleFlight
<1>5. ASSUME NEW now \in Time, NEW i \in Index, StartRefused(i, now) PROVE SingleFlight'
  <2>1. /\ \A j \in Index : slots'[j].state = slots[j].state /\ slots'[j].ticket = slots[j].ticket
    BY <1>0, <1>5 DEF StartRefused, TypeOK, Slot
  <2> QED BY <1>4, <1>5, <2>1 DEF StartRefused, runtime
<1>6. ASSUME NEW now \in Time, NEW i \in Index, AbortQueued(i, now) PROVE SingleFlight'
  <2>1. \A j \in Index : /\ slots'[j].state = "running" <=> slots[j].state = "running"
                         /\ slots'[j].ticket = slots[j].ticket
    BY <1>0, <1>6 DEF AbortQueued, Canceled, Queued, TypeOK, Slot
  <2> QED BY <1>4, <1>6, <2>1 DEF AbortQueued, runtime
<1>7. ASSUME executing' = NoIndex, activeTicket' = NoTicket,
             \A j \in Index : slots'[j].state # "running"
      PROVE SingleFlight'
  BY <1>7 DEF SingleFlight
<1>8. ASSUME NEW now \in Time, Settles(now) PROVE SingleFlight'
  <2>1. \A j \in Queued : Canceled(slots[j], now).state = "canceled"
    BY <1>0 DEF Canceled, Queued, TypeOK, Slot
  <2>2. \A j \in Index : slots'[j].state # "running"
    BY <1>8, <2>1, SettlesSlots, ExecutingSlot, <1>1
  <2> QED BY <1>7, <1>8, <2>2, SettlesSlots
<1>9. CASE PublishNext
  <2>1. \A j \in Index : /\ slots'[j].state = "running" <=> slots[j].state = "running"
                         /\ slots'[j].ticket = slots[j].ticket \/ executing # j
    BY <1>0, <1>1, <1>9 DEF PublishNext, OwnerFree, TypeOK, Vacant, Finished
  <2> QED BY <1>4, <1>9, <2>1 DEF PublishNext, runtime
<1>10. CASE Close \/ CloseFails \/ Reset
  <2>1. executing = NoIndex /\ UNCHANGED <<slots, activeTicket, executing>>
    BY <1>10 DEF Close, CloseFails, Reset, OwnerFree
  <2> QED BY <1>0, <1>1, <2>1 DEF SingleFlight
<1>11. CASE AbortAll \/ Deinit
  <2>1. executing' = NoIndex /\ activeTicket' = NoTicket /\ slots' = [i \in Index |-> Vacant]
    BY <1>11 DEF AbortAll, Deinit, OwnerFree, DestroySlots
  <2> QED BY <1>7, <2>1 DEF Vacant
<1>12. CASE UNCHANGED vars
  BY <1>0, <1>12 DEF vars, runtime, SingleFlight
<1>13. CASE Next
  BY <1>0, <1>2, <1>3, <1>5, <1>6, <1>8, <1>9, <1>10, <1>11, <1>13, NextCases DEF Stationary
<1> QED BY <1>12, <1>13
-----------------------------------------------------------------------------
(* A poisoned service.                                                     *)

LEMMA PoisonStep == ServiceInv /\ [Next]_vars => PoisonDrains'
<1> SUFFICES ASSUME ServiceInv, [Next]_vars PROVE PoisonDrains'
  OBVIOUS
<1> DEFINE Quiet(f) == \A i \in Index : f[i].state \in Finished \union {"vacant"}
<1>0. TypeOK /\ PoisonDrains /\ SingleFlight
  BY DEF ServiceInv
<1>1. runtimeOwned <=> state = "ready"
  BY <1>0 DEF PoisonDrains
<1>2. state = "poisoned" => Quiet(slots)
  BY <1>0 DEF PoisonDrains
<1>3. ASSUME UNCHANGED <<state, runtimeOwned>>, state = "poisoned" => Quiet(slots')
      PROVE PoisonDrains'
  BY <1>1, <1>3 DEF PoisonDrains
<1>4. ASSUME NEW device, NEW retained, NEW now, Submit(device, retained, now)
      PROVE PoisonDrains'
  BY <1>3, <1>4 DEF Submit, Admissible, runtime
<1>5. ASSUME NEW now \in Time, NEW i \in Index, Start(i, now) \/ StartRefused(i, now)
      PROVE PoisonDrains'
  BY <1>3, <1>5 DEF Start, StartRefused, runtime
<1>6. ASSUME NEW now \in Time, NEW i \in Index, AbortQueued(i, now) PROVE PoisonDrains'
  <2>1. i \in Queued /\ state' = state /\ runtimeOwned' = runtimeOwned
    BY <1>6 DEF AbortQueued, runtime
  <2>2. state # "poisoned"
    BY <1>2, <2>1 DEF Queued, Finished
  <2> QED BY <1>3, <2>1, <2>2
<1>7. ASSUME NEW now \in Time, Settles(now) PROVE PoisonDrains'
  <2>1. executing \in Index /\ executing # NoIndex /\ state = "ready"
    BY <1>7, SettlesSlots, <1>0 DEF SingleFlight, NoIndex, Index
  <2>2. CASE Complete(now) \/ FailRequest(now)
    BY <1>3, <2>1, <2>2 DEF Complete, FailRequest, runtime
  <2>3. ASSUME NEW made \in BOOLEAN, NEW accounted \in BOOLEAN, Poison(made, accounted, now)
        PROVE PoisonDrains'
    <3>1. state' = "poisoned" /\ runtimeOwned' = FALSE
      BY <2>3 DEF Poison, AbortRuntime
    <3>2. \A j \in Queued : Canceled(slots[j], now).state = "canceled"
      BY <1>0 DEF Canceled, Queued, TypeOK, Slot
    <3>3. \A j \in Index : slots[j].state \in SlotState
      BY <1>0 DEF TypeOK, Slot
    <3>4. \A j \in Index : j # executing /\ j \notin Queued =>
            slots[j].state \in Finished \union {"vacant"}
      BY <2>1, <3>3, ExecutingSlot DEF SlotState, Finished, Queued
    <3>5. ASSUME NEW j \in Index PROVE slots'[j].state \in Finished \union {"vacant"}
      <4>1. CASE j = executing
        BY <1>7, <4>1, SettlesSlots DEF Finished
      <4>2. CASE j # executing
        BY <1>7, <3>1, <3>2, <3>4, <4>2, SettlesSlots DEF Finished
      <4> QED BY <4>1, <4>2
    <3> QED BY <3>1, <3>5 DEF PoisonDrains
  <2> QED BY <1>7, <2>2, <2>3 DEF Settles
<1>8. CASE PublishNext
  <2>1. /\ UNCHANGED <<state, runtimeOwned>>
        /\ slots' = [slots EXCEPT ![head] = Vacant] /\ slots \in [Index -> Slot]
    BY <1>0, <1>8 DEF PublishNext, runtime, TypeOK
  <2>2. Vacant.state = "vacant"
    BY DEF Vacant
  <2>3. Quiet(slots) => Quiet(slots')
    BY <2>1, <2>2
  <2> QED BY <1>2, <1>3, <2>1, <2>3
<1>9. CASE Close \/ AbortAll \/ Deinit \/ Reset
  <2>1. \/ state' \in {"stopped", "destroyed"} /\ runtimeOwned' = FALSE
        \/ state' = "ready" /\ runtimeOwned' = TRUE
    BY <1>9 DEF Close, AbortAll, Deinit, Reset
  <2> QED BY <2>1 DEF PoisonDrains
<1>10. CASE CloseFails
  <2>1. state' = "poisoned" /\ runtimeOwned' = FALSE /\ slots' = slots /\ count = 0
    BY <1>10 DEF CloseFails, AbortRuntime, Drained
  <2>2. \A i \in Index : slots[i].state = "vacant"
    BY <2>1, LiveSlots
  <2> QED BY <2>1, <2>2 DEF PoisonDrains
<1>11. CASE UNCHANGED vars
  BY <1>2, <1>3, <1>11 DEF vars, runtime
<1> QED BY <1>0, <1>4, <1>5, <1>6, <1>7, <1>8, <1>9, <1>10, <1>11, NextCases DEF Stationary

-----------------------------------------------------------------------------
(* queue_depth.                                                            *)

LEMMA DepthStep == ServiceInv /\ [Next]_vars => DepthExact'
<1> SUFFICES ASSUME ServiceInv, [Next]_vars PROVE DepthExact'
  OBVIOUS
<1>0. TypeOK /\ DepthExact /\ SingleFlight
  BY DEF ServiceInv
<1>1. queueDepth = Cardinality(Queued) /\ IsFiniteSet(Queued) /\ Cardinality(Queued) \in Nat
  BY <1>0, IndexFinite, QueuedFinite DEF DepthExact, Queued
<1>2. ASSUME queueDepth' = queueDepth, Queued' = Queued PROVE DepthExact'
  BY <1>1, <1>2 DEF DepthExact
<1>3. ASSUME NEW i \in Queued, queueDepth' = queueDepth - 1, Queued' = Queued \ {i}
      PROVE DepthExact'
  BY <1>1, <1>3, FS_RemoveElement DEF DepthExact
<1>4. ASSUME NEW device, NEW retained, NEW now, Submit(device, retained, now)
      PROVE DepthExact'
  <2>1. Queued' = Queued \union {tail} /\ tail \notin Queued
    BY <1>4, SubmitSlot DEF Queued
  <2>2. queueDepth' = queueDepth + 1
    BY <1>4 DEF Submit
  <2> QED BY <1>1, <2>1, <2>2, FS_AddElement DEF DepthExact
<1>5. ASSUME NEW now \in Time, NEW i \in Index, Start(i, now) PROVE DepthExact'
  <2>1. i \in Queued /\ queueDepth' = queueDepth - 1
    BY <1>5 DEF Start, OldestQueued
  <2>2. slots'[i].state = "running" /\ \A j \in Index : j # i => slots'[j] = slots[j]
    BY <1>0, <1>5 DEF Start, TypeOK, Slot
  <2>3. Queued' = Queued \ {i}
    BY <2>2 DEF Queued
  <2> QED BY <1>3, <2>1, <2>3
<1>6. ASSUME NEW now \in Time, NEW i \in Index, StartRefused(i, now) PROVE DepthExact'
  <2>1. \A j \in Index : slots'[j].state = slots[j].state
    BY <1>0, <1>6 DEF StartRefused, TypeOK, Slot
  <2> QED BY <1>2, <1>6, <2>1 DEF StartRefused, Queued
<1>7. ASSUME NEW now \in Time, NEW i \in Index, AbortQueued(i, now) PROVE DepthExact'
  <2>1. i \in Queued /\ queueDepth' = queueDepth - 1
    BY <1>7 DEF AbortQueued
  <2>2. slots'[i].state = "canceled" /\ \A j \in Index : j # i => slots'[j] = slots[j]
    BY <1>0, <1>7 DEF AbortQueued, Canceled, TypeOK, Slot
  <2>3. Queued' = Queued \ {i}
    BY <2>2 DEF Queued
  <2> QED BY <1>3, <2>1, <2>3
<1>8. ASSUME NEW now \in Time, Settles(now) PROVE DepthExact'
  <2>0. executing \notin Queued
    BY <1>8, SettlesSlots DEF Queued
  <2>1. CASE Complete(now) \/ FailRequest(now)
    <3>1. queueDepth' = queueDepth /\ state' = state
      BY <2>1 DEF Complete, FailRequest, runtime
    <3>2. state' # "poisoned"
      BY <1>0, <1>8, <3>1, SettlesSlots DEF SingleFlight, NoIndex, Index
    <3>3. Queued' = Queued
      BY <1>8, <2>0, <3>2, SettlesSlots DEF Queued
    <3> QED BY <1>2, <3>1, <3>3
  <2>2. ASSUME NEW made \in BOOLEAN, NEW accounted \in BOOLEAN, Poison(made, accounted, now)
        PROVE DepthExact'
    <3>1. queueDepth' = queueDepth - Cardinality(Queued) /\ state' = "poisoned"
      BY <2>2 DEF Poison, CanceledByPoison, AbortRuntime
    <3>2. queueDepth' = 0
      BY <1>1, <3>1
    <3>3. PoisonDrains'
      BY PoisonStep
    <3>4. Queued' = {}
      BY <3>1, <3>3 DEF PoisonDrains, Queued, Finished
    <3> QED BY <3>2, <3>4, FS_EmptySet DEF DepthExact
  <2> QED BY <1>8, <2>1, <2>2 DEF Settles
<1>9. CASE PublishNext
  <2>1. slots[head].state # "queued" /\ slots' = [slots EXCEPT ![head] = Vacant]
        /\ queueDepth' = queueDepth
    BY <1>9 DEF PublishNext, Finished
  <2>2. Queued' = Queued
    BY <1>0, <2>1 DEF Queued, TypeOK, Vacant
  <2> QED BY <1>2, <2>1, <2>2
<1>10. CASE Close \/ CloseFails \/ Reset
  BY <1>2, <1>10 DEF Close, CloseFails, Reset, Queued
<1>11. CASE AbortAll \/ Deinit
  <2>1. queueDepth' = 0 /\ slots' = [i \in Index |-> Vacant]
    BY <1>11 DEF AbortAll, Deinit, DestroySlots
  <2>2. Queued' = {}
    BY <2>1 DEF Queued, Vacant
  <2> QED BY <2>1, <2>2, FS_EmptySet DEF DepthExact
<1>12. CASE UNCHANGED vars
  BY <1>2, <1>12 DEF vars, Queued
<1> QED BY <1>0, <1>4, <1>5, <1>6, <1>7, <1>8, <1>9, <1>10, <1>11, <1>12, NextCases
        DEF Stationary

-----------------------------------------------------------------------------
(* ServiceInv holds of every reachable state of the request service,       *)
(* whatever the length of the ring and the order of the calls on it.       *)
THEOREM Invariance == Spec => []ServiceInv
<1>1. ServiceInv /\ [Next]_vars => ServiceInv'
  BY TypeStep, RingStep, OrderStep, FlightStep, PoisonStep, DepthStep DEF ServiceInv
<1> QED BY InitInv, <1>1, PTL DEF Spec

(* Every variable of the service keeps its type: no ring index leaves the  *)
(* ring, and queue_depth never wraps below zero.                           *)
THEOREM TypeCorrect == Spec => []TypeOK
  BY Invariance, PTL DEF ServiceInv

(* submit never overwrites a live slot and publishNext never finds a hole: *)
(* the ring holds the accepted, unpublished tickets in order.              *)
THEOREM RingCorrect == Spec => []RingHoldsUnpublished
  BY Invariance, PTL DEF ServiceInv

(* publishNext delivers ticket 1, 2, 3, ... whatever order requests are    *)
(* canceled, failed or proved in.                                          *)
THEOREM PublicationOrder == Spec => []PublishedInOrder
  BY Invariance, PTL DEF ServiceInv

(* No two proofs overlap, and active_ticket names the one that runs, even  *)
(* with submissions between the two locked halves of pumpOne.              *)
THEOREM OneFlight == Spec => []SingleFlight
  BY Invariance, PTL DEF ServiceInv

(* A poisoned service has given its runtime up and holds no request.       *)
THEOREM PoisonDrained == Spec => []PoisonDrains
  BY Invariance, PTL DEF ServiceInv
-----------------------------------------------------------------------------
(* Runtime generations and the calls that end a runtime.                   *)

FenceInv == ServiceInv /\ GenerationFence /\ RuntimeGivenUp

LEMMA FenceStep == FenceInv /\ ServiceInv' /\ [Next]_vars => GenerationFence'
<1> SUFFICES ASSUME FenceInv, ServiceInv', [Next]_vars PROVE GenerationFence'
  OBVIOUS
<1>0. TypeOK /\ ServiceInv /\ GenerationFence
  BY DEF FenceInv, ServiceInv
<1>1. ASSUME generation' = generation,
             \A i \in Index : slots'[i].state # "vacant" =>
               slots'[i].generation = generation \/ slots'[i] = slots[i]
               \/ (slots[i].state # "vacant" /\ slots'[i].generation = slots[i].generation)
      PROVE GenerationFence'
  BY <1>0, <1>1 DEF GenerationFence
<1>2. ASSUME NEW device, NEW retained, NEW now, Submit(device, retained, now)
      PROVE GenerationFence'
  <2>1. generation' = generation
    BY <1>2 DEF Submit, runtime
  <2>2. /\ slots'[tail].generation = generation
        /\ \A i \in Index : i # tail => slots'[i] = slots[i]
    BY <1>0, <1>2, SubmitSlot
  <2> QED BY <1>1, <2>1, <2>2
<1>3. ASSUME NEW now \in Time, NEW i \in Index,
             Start(i, now) \/ StartRefused(i, now) \/ AbortQueued(i, now)
      PROVE GenerationFence'
  <2>1. generation' = generation /\ i \in Queued
    BY <1>3 DEF Start, StartRefused, AbortQueued, OldestQueued, runtime
  <2>2. /\ slots'[i].generation = slots[i].generation
        /\ \A j \in Index : j # i => slots'[j] = slots[j]
    BY <1>0, <1>3 DEF Start, StartRefused, AbortQueued, Canceled, TypeOK, Slot
  <2> QED BY <1>1, <2>1, <2>2 DEF Queued
<1>4. ASSUME NEW now \in Time, Settles(now) PROVE GenerationFence'
  <2>1. \A j \in Queued : Canceled(slots[j], now).generation = slots[j].generation
    BY <1>0 DEF Canceled, Queued, TypeOK, Slot
  <2>2. \A j \in Queued : slots[j].state # "vacant"
    BY DEF Queued
  <2>3. slots[executing].state = "running"
        /\ slots'[executing].generation = slots[executing].generation
        /\ generation' = generation
    BY <1>0, <1>4, SettlesSlots
  <2>4. \A j \in Index : j # executing =>
          slots'[j] = slots[j] \/ (j \in Queued /\ slots'[j] = Canceled(slots[j], now))
    BY <1>0, <1>4, SettlesSlots
  <2> QED BY <1>1, <2>1, <2>2, <2>3, <2>4
<1>5. CASE PublishNext
  <2>1. generation' = generation /\ slots' = [slots EXCEPT ![head] = Vacant]
    BY <1>5 DEF PublishNext, runtime
  <2> QED BY <1>0, <1>1, <2>1 DEF TypeOK, Vacant
<1>6. CASE Close \/ CloseFails
  BY <1>1, <1>6 DEF Close, CloseFails
<1>7. CASE Reset
  <2>1. slots' = slots /\ count = 0
    BY <1>7 DEF Reset, CanReset, Drained
  <2>2. \A i \in Index : slots[i].state = "vacant"
    BY <1>0, <2>1, LiveSlots
  <2> QED BY <2>1, <2>2 DEF GenerationFence
<1>8. CASE AbortAll \/ Deinit
  <2>1. slots' = [i \in Index |-> Vacant]
    BY <1>8 DEF AbortAll, Deinit, DestroySlots
  <2> QED BY <2>1 DEF GenerationFence, Vacant
<1>9. CASE UNCHANGED vars
  BY <1>1, <1>9 DEF vars, runtime
<1> QED BY <1>0, <1>2, <1>3, <1>4, <1>5, <1>6, <1>7, <1>8, <1>9, NextCases DEF Stationary

LEMMA GivenUpStep == FenceInv /\ [Next]_vars => RuntimeGivenUp'
<1> SUFFICES ASSUME FenceInv, [Next]_vars PROVE RuntimeGivenUp'
  OBVIOUS
<1>0. TypeOK /\ RuntimeGivenUp /\ ServiceInv
  BY DEF FenceInv, ServiceInv
<1>1. ASSUME UNCHANGED <<runtimeOwned, endCalls>> PROVE RuntimeGivenUp'
  BY <1>0, <1>1 DEF RuntimeGivenUp
<1>2. runtimeOwned \in BOOLEAN /\ endCalls \in Nat /\ endCalls <= 2
      /\ (runtimeOwned <=> endCalls = 0) /\ (runtimeOwned <=> state = "ready")
  BY <1>0 DEF TypeOK, RuntimeGivenUp, ServiceInv, PoisonDrains
<1>3. ASSUME NEW device, NEW retained, NEW now, Submit(device, retained, now)
      PROVE RuntimeGivenUp'
  BY <1>1, <1>3 DEF Submit, runtime
<1>4. ASSUME NEW now \in Time, NEW i \in Index,
             Start(i, now) \/ StartRefused(i, now) \/ AbortQueued(i, now)
      PROVE RuntimeGivenUp'
  BY <1>1, <1>4 DEF Start, StartRefused, AbortQueued, runtime
<1>5. ASSUME NEW now \in Time, Complete(now) \/ FailRequest(now) PROVE RuntimeGivenUp'
  BY <1>1, <1>5 DEF Complete, FailRequest, runtime
<1>6. ASSUME NEW calls \in {0, 1}, AbortRuntime(calls), state = "ready" PROVE RuntimeGivenUp'
  <2>1. runtimeOwned /\ endCalls = 0
    BY <1>2, <1>6
  <2>2. endCalls' = calls + 1 /\ runtimeOwned' = FALSE
    BY <1>6, <2>1 DEF AbortRuntime
  <2> QED BY <2>2 DEF RuntimeGivenUp
<1>7. ASSUME NEW now \in Time, NEW made \in BOOLEAN, NEW accounted \in BOOLEAN,
             Poison(made, accounted, now)
      PROVE RuntimeGivenUp'
  <2>1. executing # NoIndex /\ AbortRuntime(0)
    BY <1>7 DEF Poison
  <2>2. state = "ready"
    BY <1>0, <2>1, ExecutingSlot
  <2> QED BY <1>6, <2>1, <2>2
<1>8. CASE PublishNext
  BY <1>1, <1>8 DEF PublishNext, runtime
<1>9. CASE CloseFails
  BY <1>6, <1>9 DEF CloseFails
<1>10. CASE Close
  <2>1. state = "ready" /\ runtimeOwned' = FALSE /\ endCalls' = endCalls + 1
    BY <1>10 DEF Close
  <2> QED BY <1>2, <2>1 DEF RuntimeGivenUp
<1>11. CASE AbortAll \/ Deinit
  <2>1. runtimeOwned' = FALSE /\ endCalls' = endCalls + (IF runtimeOwned THEN 1 ELSE 0)
    BY <1>11 DEF AbortAll, Deinit
  <2>2. endCalls' \in 1 .. 2
    <3>1. CASE runtimeOwned
      BY <1>2, <2>1, <3>1
    <3>2. CASE ~runtimeOwned
      BY <1>2, <2>1, <3>2
    <3> QED BY <3>1, <3>2
  <2> QED BY <2>1, <2>2 DEF RuntimeGivenUp
<1>12. CASE Reset
  <2>1. runtimeOwned' = TRUE /\ endCalls' = 0
    BY <1>12 DEF Reset
  <2> QED BY <2>1 DEF RuntimeGivenUp
<1>13. CASE UNCHANGED vars
  BY <1>1, <1>13 DEF vars, runtime
<1> QED BY <1>0, <1>3, <1>4, <1>5, <1>7, <1>8, <1>9, <1>10, <1>11, <1>12, <1>13, NextCases
        DEF Stationary, Settles

LEMMA FenceInvariance == Spec => []FenceInv
<1>1. Init => FenceInv
  <2>1. ASSUME Init PROVE GenerationFence /\ RuntimeGivenUp
    BY <2>1 DEF Init, GenerationFence, RuntimeGivenUp, Vacant
  <2> QED BY <2>1, InitInv DEF FenceInv
<1>2. FenceInv /\ ServiceInv' /\ [Next]_vars => FenceInv'
  BY FenceStep, GivenUpStep DEF FenceInv
<1> QED BY <1>1, <1>2, Invariance, PTL DEF Spec

(* The receipt of every ticket names the runtime generation that was       *)
(* current at its admission: no request crosses a reset.                   *)
THEOREM GenerationsFenced == Spec => []GenerationFence
  BY FenceInvariance, PTL DEF FenceInv

(* The service owns its runtime until it closes or aborts it, and makes at *)
(* most two such calls on it, the second an abort after a failed close.    *)
THEOREM RuntimeEnds == Spec => []RuntimeGivenUp
  BY FenceInvariance, PTL DEF FenceInv

-----------------------------------------------------------------------------
(* Order of execution.                                                     *)

(* The slot nextQueuedIndex returns holds the smallest queued ticket: the  *)
(* scan visits the live slots in ticket order.                             *)
LEMMA OldestHasLeastTicket ==
  ASSUME ServiceInv, NEW i \in Index, OldestQueued(i), NEW j \in Queued
  PROVE  slots[i].ticket <= slots[j].ticket
<1> USE LimitsAssumption
<1>0. head \in Index /\ count \in 0 .. MaxPending /\ Delivered \in Nat
  BY DEF ServiceInv, TypeOK, Delivered
<1>1. PICK k \in 0 .. count - 1 :
        i = Wrap(head + k) /\ \A n \in 0 .. k - 1 : Wrap(head + n) \notin Queued
  BY DEF OldestQueued
<1>2. \A n \in 0 .. MaxPending - 1 :
        Wrap(head + n) = IF head + n < MaxPending THEN head + n ELSE head + n - MaxPending
  BY <1>0, WrapBelow, WrapAbove DEF Index
<1>3. Offset(i) = k
  BY <1>0, <1>1, <1>2 DEF Offset, Index
<1>4. j \in Index /\ slots[j].state = "queued" /\ slots[i].state = "queued"
  BY DEF Queued, OldestQueued
<1>5. Offset(j) \in 0 .. MaxPending - 1 /\ j = Wrap(head + Offset(j))
  BY <1>0, <1>2, <1>4 DEF Offset, Index
<1>6. k <= Offset(j)
  BY <1>0, <1>1, <1>5
<1>7. slots[i].ticket = Delivered + k + 1 /\ slots[j].ticket = Delivered + Offset(j) + 1
  BY <1>3, <1>4, LiveSlots
<1> QED BY <1>0, <1>1, <1>5, <1>6, <1>7

(* Requests start in ticket order, across every wrap of the ring and every *)
(* cancellation in its middle.                                             *)
THEOREM OldestStarts == Spec => StartsOldestFirst
<1> DEFINE Oldest == \A i \in Index : executing # i /\ executing' = i =>
                       \A j \in Queued : slots[i].ticket <= slots[j].ticket
<1>1. ServiceInv /\ [Next]_vars => Oldest
  <2> SUFFICES ASSUME ServiceInv, [Next]_vars, NEW i \in Index, executing # i, executing' = i,
                      NEW j \in Queued
               PROVE  slots[i].ticket <= slots[j].ticket
    OBVIOUS
  <2>1. i # NoIndex
    BY DEF Index, NoIndex
  <2>2. ASSUME NEW now \in Time, NEW n \in Index, Start(n, now)
        PROVE slots[i].ticket <= slots[j].ticket
    <3>1. n = i /\ OldestQueued(i)
      BY <2>2 DEF Start
    <3> QED BY <3>1, OldestHasLeastTicket
  <2>3. ASSUME NEW now \in Time, Stationary(now) PROVE \E n \in Index : Start(n, now)
    BY <2>1, <2>3, SettlesSlots DEF Stationary, StartRefused, AbortQueued
  <2>4. executing' # executing
    OBVIOUS
  <2>5. Next
    BY <2>4 DEF vars
  <2> QED BY <2>1, <2>2, <2>3, <2>4, <2>5, NextCases
          DEF ServiceInv, Submit, PublishNext, Close, CloseFails, AbortAll, Reset, Deinit
<1> QED BY <1>1, Invariance, PTL DEF Spec, StartsOldestFirst

(* No step but its publication or a shutdown touches a finished slot.      *)
THEOREM VerdictsKept == Spec => VerdictsStick
<1> DEFINE Stick == \A i \in Index : slots[i].state \in Finished /\ Serving' =>
                      slots'[i] = slots[i] \/ (i = head /\ Len(published') = Delivered + 1)
<1>1. ServiceInv /\ [Next]_vars => Stick
  <2> SUFFICES ASSUME ServiceInv, [Next]_vars, NEW i \in Index,
                      slots[i].state \in Finished, Serving'
               PROVE  slots'[i] = slots[i] \/ (i = head /\ Len(published') = Delivered + 1)
    OBVIOUS
  <2>0. TypeOK
    BY DEF ServiceInv
  <2>1. slots[i].state # "vacant" /\ i \notin Queued /\ slots[i].state # "running"
    BY DEF Finished, Queued
  <2>2. ASSUME NEW device, NEW retained, NEW now, Submit(device, retained, now)
        PROVE slots'[i] = slots[i]
    BY <2>1, <2>2, SubmitSlot
  <2>3. ASSUME NEW now \in Time, NEW n \in Index,
               Start(n, now) \/ StartRefused(n, now) \/ AbortQueued(n, now)
        PROVE slots'[i] = slots[i]
    BY <2>0, <2>1, <2>3 DEF Start, StartRefused, AbortQueued, OldestQueued, TypeOK
  <2>4. ASSUME NEW now \in Time, Settles(now) PROVE slots'[i] = slots[i]
    BY <2>1, <2>4, SettlesSlots
  <2>5. CASE PublishNext
    BY <2>0, <2>5 DEF PublishNext, Delivered, TypeOK
  <2>6. CASE Close \/ CloseFails \/ Reset
    BY <2>6 DEF Close, CloseFails, Reset
  <2>7. ~(AbortAll \/ Deinit)
    BY DEF AbortAll, Deinit, Serving
  <2>8. CASE UNCHANGED vars
    BY <2>8 DEF vars
  <2> QED BY <2>0, <2>2, <2>3, <2>4, <2>5, <2>6, <2>7, <2>8, NextCases DEF Stationary
<1> QED BY <1>1, Invariance, PTL DEF Spec, VerdictsStick

-----------------------------------------------------------------------------
(* The service implements ProofQueue.                                      *)

Shows(st) ==
  CASE st = "queued"  -> "waiting"
    [] st = "running" -> "proving"
    [] OTHER          -> Kind[st]

Live(i) == slots[i].state # "vacant"

(* How the refinement mapping reads a ticket's verdict: from its slot, and *)
(* each ticket that is given out and not published has one slot.           *)
VerdictsRead ==
  /\ \A t \in 1 .. nextTicket - 1 :
       /\ t <= Delivered => VerdictOf(t) = published[t].kind
       /\ t > Delivered /\ ~Serving => VerdictOf(t) = "abandoned"
       /\ t > Delivered /\ Serving => \E i \in Index : Live(i) /\ slots[i].ticket = t
  /\ \A i \in Index : Live(i) =>
       /\ slots[i].ticket \in Delivered + 1 .. nextTicket - 1 /\ Serving
       /\ VerdictOf(slots[i].ticket) = Shows(slots[i].state)
       /\ \A j \in Index : Live(j) /\ slots[i].ticket = slots[j].ticket => i = j

LEMMA ServiceTypes ==
  ServiceInv => /\ slots \in [Index -> Slot] /\ count \in Nat /\ nextTicket \in Nat \ {0}
                /\ Delivered \in Nat
  BY LimitsAssumption, WidthAssumption DEF ServiceInv, TypeOK, Delivered

LEMMA ReadVerdicts == ServiceInv => VerdictsRead
<1> SUFFICES ASSUME ServiceInv PROVE VerdictsRead
  OBVIOUS
<1> USE LimitsAssumption
<1>0. /\ head \in Index /\ count \in 0 .. MaxPending /\ Delivered \in Nat
      /\ nextTicket \in Nat /\ MaxPending \in Nat
  BY WidthAssumption DEF ServiceInv, TypeOK, Delivered
<1>1. \A k \in 0 .. MaxPending - 1 :
        Wrap(head + k) = IF head + k < MaxPending THEN head + k ELSE head + k - MaxPending
  BY <1>0, WrapBelow, WrapAbove DEF Index
<1>2. \A k \in 0 .. MaxPending - 1 : Wrap(head + k) \in Index /\ Offset(Wrap(head + k)) = k
  BY <1>0, <1>1 DEF Index, Offset
<1>3. \A i \in Index : Offset(i) \in 0 .. MaxPending - 1 /\ Wrap(head + Offset(i)) = i
  BY <1>0, <1>1 DEF Index, Offset
<1>4. Serving => nextTicket = Delivered + count + 1
  BY DEF ServiceInv, RingHoldsUnpublished
<1>5. ASSUME NEW t \in 1 .. nextTicket - 1
      PROVE  /\ t <= Delivered => VerdictOf(t) = published[t].kind
             /\ t > Delivered /\ ~Serving => VerdictOf(t) = "abandoned"
             /\ t > Delivered /\ Serving => \E i \in Index : Live(i) /\ slots[i].ticket = t
  <2>1. t <= Delivered => VerdictOf(t) = published[t].kind
    BY DEF VerdictOf
  <2>2. t > Delivered /\ ~Serving => VerdictOf(t) = "abandoned"
    BY <1>0 DEF VerdictOf
  <2>3. ASSUME t > Delivered, Serving PROVE \E i \in Index : Live(i) /\ slots[i].ticket = t
    <3> DEFINE k == t - Delivered - 1
    <3>1. k \in 0 .. count - 1 /\ k \in 0 .. MaxPending - 1
      BY <1>0, <1>4, <2>3
    <3>2. Wrap(head + k) \in Index /\ Offset(Wrap(head + k)) = k
      BY <1>2, <3>1
    <3>3. Live(Wrap(head + k)) /\ slots[Wrap(head + k)].ticket = Delivered + k + 1
      BY <1>0, <3>1, <3>2 DEF ServiceInv, RingHoldsUnpublished, Live
    <3> QED BY <1>0, <3>2, <3>3
  <2> QED BY <2>1, <2>2, <2>3
<1>6. ASSUME NEW i \in Index, Live(i)
      PROVE  /\ slots[i].ticket \in Delivered + 1 .. nextTicket - 1 /\ Serving
             /\ VerdictOf(slots[i].ticket) = Shows(slots[i].state)
             /\ \A j \in Index : Live(j) /\ slots[i].ticket = slots[j].ticket => i = j
  <2>1. /\ Serving /\ Offset(i) < count /\ slots[i].ticket = Delivered + Offset(i) + 1
    BY <1>6, LiveSlots DEF Live
  <2>2. Offset(i) \in 0 .. count - 1 /\ slots[i].ticket \in Delivered + 1 .. nextTicket - 1
    BY <1>0, <1>3, <1>4, <2>1
  <2>3. SlotOf(slots[i].ticket) = slots[i]
    <3>1. slots[i].ticket - Delivered - 1 = Offset(i)
      BY <1>0, <1>3, <2>1
    <3>2. head + slots[i].ticket - Delivered - 1 = head + Offset(i)
      BY <1>0, <1>3, <2>1
    <3> QED BY <1>3, <3>2 DEF SlotOf
  <2>4. VerdictOf(slots[i].ticket) = Shows(slots[i].state)
    BY <1>0, <2>1, <2>2, <2>3 DEF VerdictOf, Shows
  <2>5. ASSUME NEW j \in Index, Live(j), slots[i].ticket = slots[j].ticket PROVE i = j
    <3>1. slots[j].ticket = Delivered + Offset(j) + 1
      BY <2>5, LiveSlots DEF Live
    <3>2. Offset(i) = Offset(j)
      BY <1>0, <1>3, <2>1, <2>5, <3>1
    <3> QED BY <1>3, <3>2
  <2> QED BY <2>1, <2>2, <2>4, <2>5
<1> QED BY <1>5, <1>6 DEF VerdictsRead

Verdicts == [t \in 1 .. nextTicket - 1 |-> VerdictOf(t)]
Mode == CASE state = "ready"    -> "serving"
          [] state = "poisoned" -> "broken"
          [] OTHER              -> "stopped"

(* Who waits and who is proved, in both views.                             *)
LEMMA QueueSets ==
  ASSUME ServiceInv
  PROVE  /\ PQ!Waiting = TicketsOf(Queued)
         /\ PQ!Proving = IF executing = NoIndex THEN {} ELSE {slots[executing].ticket}
         /\ \A t \in 1 .. nextTicket - 1 : t <= Delivered =>
              VerdictOf(t) \in {"proof", "failure", "canceled"}
<1>0. /\ Delivered \in Nat /\ nextTicket \in Nat /\ executing \in Index \union {NoIndex}
      /\ \A i \in Index : slots[i].state \in SlotState
      /\ published \in Seq([ticket : Tickets, kind : {"proof", "failure", "canceled"}])
  BY WidthAssumption DEF ServiceInv, TypeOK, Delivered, Slot
<1>1. VerdictsRead
  BY ReadVerdicts
<1>2. \A t \in 1 .. nextTicket - 1 : t <= Delivered =>
        VerdictOf(t) \in {"proof", "failure", "canceled"}
  <2> SUFFICES ASSUME NEW t \in 1 .. nextTicket - 1, t <= Delivered
               PROVE  VerdictOf(t) \in {"proof", "failure", "canceled"}
    OBVIOUS
  <2>1. published[t] \in [ticket : Tickets, kind : {"proof", "failure", "canceled"}]
    <3>1. t \in 1 .. Len(published)
      BY <1>0 DEF Delivered
    <3> DEFINE R == [ticket : Tickets, kind : {"proof", "failure", "canceled"}]
    <3>2. published \in Seq(R)
      BY <1>0
    <3> HIDE DEF R
    <3>3. published[t] \in R
      BY <3>1, <3>2
    <3> QED BY <3>3 DEF R
  <2>2. VerdictOf(t) = published[t].kind
    BY <1>1 DEF VerdictsRead
  <2> QED BY <2>1, <2>2
<1>3. \A i \in Index : Live(i) =>
        /\ Shows(slots[i].state) = "waiting" <=> i \in Queued
        /\ Shows(slots[i].state) = "proving" <=> slots[i].state = "running"
  BY <1>0 DEF Live, Shows, Kind, SlotState, Queued
<1>4. \A t \in 1 .. nextTicket - 1 :
        VerdictOf(t) = "waiting" <=> \E i \in Queued : slots[i].ticket = t
  <2> SUFFICES ASSUME NEW t \in 1 .. nextTicket - 1
               PROVE  VerdictOf(t) = "waiting" <=> \E i \in Queued : slots[i].ticket = t
    OBVIOUS
  <2>1. CASE t <= Delivered \/ ~Serving
    <3>1. VerdictOf(t) # "waiting"
      BY <1>0, <1>1, <1>2, <2>1 DEF VerdictsRead
    <3>2. \A i \in Queued : slots[i].ticket # t
      BY <1>0, <1>1, <2>1 DEF VerdictsRead, Queued, Live
    <3> QED BY <3>1, <3>2
  <2>2. CASE t > Delivered /\ Serving
    <3>1. PICK i \in Index : Live(i) /\ slots[i].ticket = t
      BY <1>1, <2>2 DEF VerdictsRead
    <3>2. VerdictOf(t) = Shows(slots[i].state)
      BY <1>1, <3>1 DEF VerdictsRead
    <3>3. \A j \in Queued : slots[j].ticket = t => j = i
      BY <1>1, <3>1 DEF VerdictsRead, Queued, Live
    <3> QED BY <1>3, <3>1, <3>2, <3>3
  <2> QED BY <1>0, <2>1, <2>2
<1>5. \A t \in 1 .. nextTicket - 1 :
        VerdictOf(t) = "proving" <=> executing # NoIndex /\ t = slots[executing].ticket
  <2> SUFFICES ASSUME NEW t \in 1 .. nextTicket - 1
               PROVE  VerdictOf(t) = "proving" <=>
                        executing # NoIndex /\ t = slots[executing].ticket
    OBVIOUS
  <2>0. executing # NoIndex =>
          executing \in Index /\ slots[executing].state = "running" /\ Live(executing)
    BY ExecutingSlot DEF Live
  <2>1. CASE t <= Delivered \/ ~Serving
    <3>1. VerdictOf(t) # "proving"
      BY <1>0, <1>1, <1>2, <2>1 DEF VerdictsRead
    <3>2. executing # NoIndex => t # slots[executing].ticket
      BY <1>0, <1>1, <2>0, <2>1 DEF VerdictsRead
    <3> QED BY <3>1, <3>2
  <2>2. CASE t > Delivered /\ Serving
    <3>1. PICK i \in Index : Live(i) /\ slots[i].ticket = t
      BY <1>1, <2>2 DEF VerdictsRead
    <3>2. VerdictOf(t) = Shows(slots[i].state)
      BY <1>1, <3>1 DEF VerdictsRead
    <3>3. slots[i].state = "running" <=> executing = i /\ executing # NoIndex
      BY <1>0 DEF ServiceInv, SingleFlight, Index, NoIndex
    <3>4. executing # NoIndex /\ t = slots[executing].ticket => executing = i
      BY <1>1, <2>0, <3>1 DEF VerdictsRead
    <3> QED BY <1>3, <3>1, <3>2, <3>3, <3>4
  <2> QED BY <1>0, <2>1, <2>2
<1>6. \A i \in Queued : slots[i].ticket \in 1 .. nextTicket - 1
  BY <1>0, <1>1 DEF VerdictsRead, Queued, Live
<1>7. executing # NoIndex => slots[executing].ticket \in 1 .. nextTicket - 1
  BY <1>0, <1>1, ExecutingSlot DEF VerdictsRead, Live
<1>8. PQ!Waiting = TicketsOf(Queued)
  BY <1>4, <1>6 DEF PQ!Waiting, TicketsOf
<1>9. PQ!Proving = IF executing = NoIndex THEN {} ELSE {slots[executing].ticket}
  BY <1>5, <1>7 DEF PQ!Proving
<1> QED BY <1>2, <1>8, <1>9

(* A step that leaves every slot in its place changes the verdicts of the  *)
(* tickets whose slots change state, and no other.                         *)
LEMMA VerdictsInPlace ==
  ASSUME ServiceInv, ServiceInv', InPlace
  PROVE  /\ nextTicket' = nextTicket /\ Delivered' = Delivered
         /\ \A t \in 1 .. nextTicket - 1, i \in Index :
              Live(i) /\ slots[i].ticket = t => VerdictOf(t)' = Shows(slots'[i].state)
         /\ \A t \in 1 .. nextTicket - 1 :
              VerdictOf(t)' = VerdictOf(t) \/ \E i \in Index : Live(i) /\ slots[i].ticket = t
<1>1. VerdictsRead /\ VerdictsRead'
  <2>1. VerdictsRead
    BY ReadVerdicts
  <2>2. ServiceInv' => VerdictsRead'
    BY ReadVerdicts, PTL
  <2> QED BY <2>1, <2>2
<1>2. nextTicket' = nextTicket /\ published' = published /\ Delivered' = Delivered
      /\ Serving /\ Serving'
  BY DEF InPlace, Delivered
<1>3. ASSUME NEW t \in 1 .. nextTicket - 1, NEW i \in Index, Live(i), slots[i].ticket = t
      PROVE VerdictOf(t)' = Shows(slots'[i].state)
  <2>1. Live(i)' /\ slots'[i].ticket = t
    BY <1>3 DEF Live, InPlace
  <2> QED BY <1>1, <2>1 DEF VerdictsRead
<1>4. ASSUME NEW t \in 1 .. nextTicket - 1
      PROVE  VerdictOf(t)' = VerdictOf(t) \/ \E i \in Index : Live(i) /\ slots[i].ticket = t
  <2>1. CASE t <= Delivered
    BY <1>1, <1>2, <2>1 DEF VerdictsRead
  <2>2. CASE t > Delivered
    BY <1>1, <1>2, <2>2 DEF VerdictsRead
  <2>3. Delivered \in Nat
    BY DEF ServiceInv, TypeOK, Delivered
  <2> QED BY <2>1, <2>2, <2>3
<1> QED BY <1>2, <1>3, <1>4

(* One slot changes its state.                                             *)
LEMMA OneVerdict ==
  ASSUME ServiceInv, ServiceInv', InPlace, NEW i \in Index, Live(i),
         \A j \in Index : j # i => slots'[j].state = slots[j].state
  PROVE  /\ Verdicts' = [Verdicts EXCEPT ![slots[i].ticket] = Shows(slots'[i].state)]
         /\ slots[i].ticket \in 1 .. nextTicket - 1
<1>0. VerdictsRead /\ nextTicket \in Nat /\ Delivered \in Nat
  BY ReadVerdicts, ServiceTypes
<1>1. slots[i].ticket \in 1 .. nextTicket - 1
  BY <1>0 DEF VerdictsRead
<1>2. ASSUME NEW t \in 1 .. nextTicket - 1, t # slots[i].ticket PROVE VerdictOf(t)' = VerdictOf(t)
  <2>1. CASE \E j \in Index : Live(j) /\ slots[j].ticket = t
    <3>1. PICK j \in Index : Live(j) /\ slots[j].ticket = t
      BY <2>1
    <3>2. slots'[j].state = slots[j].state
      BY <1>2, <3>1
    <3> QED BY <1>0, <3>1, <3>2, VerdictsInPlace DEF VerdictsRead
  <2> QED BY <2>1, VerdictsInPlace
<1>3. \A t \in 1 .. nextTicket - 1 :
        slots[i].ticket = t => VerdictOf(t)' = Shows(slots'[i].state)
  BY VerdictsInPlace
<1>4. nextTicket' = nextTicket
  BY VerdictsInPlace
<1> QED BY <1>1, <1>2, <1>3, <1>4 DEF Verdicts

LEMMA VerdictsStay ==
  ASSUME ServiceInv, ServiceInv', InPlace, \A j \in Index : slots'[j].state = slots[j].state
  PROVE  Verdicts' = Verdicts
<1>0. VerdictsRead
  BY ReadVerdicts
<1>1. ASSUME NEW t \in 1 .. nextTicket - 1 PROVE VerdictOf(t)' = VerdictOf(t)
  <2>1. CASE \E j \in Index : Live(j) /\ slots[j].ticket = t
    <3>1. PICK j \in Index : Live(j) /\ slots[j].ticket = t
      BY <2>1
    <3> QED BY <1>0, <3>1, VerdictsInPlace DEF VerdictsRead
  <2> QED BY <2>1, VerdictsInPlace
<1> QED BY <1>1, VerdictsInPlace DEF Verdicts

LEMMA AdmitRefined ==
  ASSUME ServiceInv, ServiceInv', NEW device, NEW retained, NEW now, Submit(device, retained, now)
  PROVE  PQ!Admit
<1>0. VerdictsRead /\ VerdictsRead'
  <2>1. VerdictsRead
    BY ReadVerdicts
  <2>2. ServiceInv' => VerdictsRead'
    BY ReadVerdicts, PTL
  <2> QED BY <2>1, <2>2
<1>1. /\ nextTicket \in Nat \ {0} /\ Delivered \in Nat /\ count \in Nat /\ MaxPending \in Nat
      /\ nextTicket' = nextTicket + 1 /\ published' = published /\ Delivered' = Delivered
  BY LimitsAssumption DEF ServiceInv, TypeOK, Submit, Delivered
<1>2. state = "ready" /\ state' = "ready" /\ Serving /\ Serving'
  BY SubmitSlot DEF Serving
<1>3. nextTicket - 1 - Delivered < MaxPending
  <2>1. nextTicket = Delivered + count + 1 /\ count < MaxPending
    BY <1>2, LimitsAssumption
       DEF ServiceInv, TypeOK, RingHoldsUnpublished, Submit, Admissible, HasRoom
  <2> QED BY <1>1, <2>1
<1>4. /\ tail \in Index /\ ~Live(tail) /\ slots'[tail].state = "queued"
      /\ \A i \in Index : i # tail => slots'[i] = slots[i]
  BY SubmitSlot DEF Live
<1>5. slots'[tail].ticket = nextTicket
  BY <1>4 DEF Submit, NextSlot, ServiceInv, TypeOK
<1>6. \A t \in Nat : t = nextTicket => VerdictOf(t)' = "waiting"
  <2>1. PICK i \in Index : i = tail
    BY <1>4
  <2>2. Live(i)' /\ slots'[i].ticket = nextTicket /\ slots'[i].state = "queued"
    BY <1>4, <1>5, <2>1 DEF Live
  <2>3. \A t \in Nat : t = nextTicket => VerdictOf(t)' = Shows(slots'[i].state)
    BY <1>0, <2>2 DEF VerdictsRead
  <2> QED BY <2>2, <2>3 DEF Shows
<1>7. ASSUME NEW t \in 1 .. nextTicket - 1 PROVE VerdictOf(t)' = VerdictOf(t)
  <2>1. CASE t <= Delivered
    BY <1>0, <1>1, <2>1 DEF VerdictsRead
  <2>2. CASE t > Delivered
    <3>1. PICK i \in Index : Live(i) /\ slots[i].ticket = t
      BY <1>0, <1>2, <2>2 DEF VerdictsRead
    <3>2. slots'[i] = slots[i] /\ Live(i)'
      BY <1>4, <3>1 DEF Live
    <3> QED BY <1>0, <3>1, <3>2 DEF VerdictsRead
  <2> QED BY <1>1, <2>1, <2>2
<1>8. Verdicts' = [t \in 1 .. nextTicket - 1 + 1 |->
                     IF t = nextTicket - 1 + 1 THEN "waiting" ELSE Verdicts[t]]
  BY <1>1, <1>6, <1>7 DEF Verdicts
<1>9. nextTicket' - 1 = nextTicket - 1 + 1
  BY <1>1
<1> QED BY <1>1, <1>2, <1>3, <1>8, <1>9 DEF PQ!Admit, Verdicts

LEMMA StartRefined ==
  ASSUME ServiceInv, ServiceInv', NEW now \in Time, NEW i \in Index, Start(i, now)
  PROVE  \E t \in 1 .. nextTicket - 1 : PQ!Begin(t)
<1>1. InPlace
  BY StationaryInPlace DEF Stationary
<1>2. /\ OldestQueued(i) /\ i \in Queued /\ Live(i) /\ state = "ready" /\ state' = "ready"
      /\ executing = NoIndex
  BY DEF Start, OldestQueued, OwnerFree, Live, Queued
<1>3. slots'[i].state = "running" /\ \A j \in Index : j # i => slots'[j].state = slots[j].state
  BY DEF ServiceInv, TypeOK, Slot, Start
<1>4. PICK t \in 1 .. nextTicket - 1 : t = slots[i].ticket
  BY <1>1, <1>2, <1>3, OneVerdict
<1>5. Verdicts' = [Verdicts EXCEPT ![t] = "proving"]
  <2>1. Verdicts' = [Verdicts EXCEPT ![slots[i].ticket] = Shows(slots'[i].state)]
    BY <1>1, <1>2, <1>3, OneVerdict
  <2> QED BY <1>3, <1>4, <2>1 DEF Shows
<1>6. PQ!Proving = {} /\ PQ!Waiting = TicketsOf(Queued)
  BY <1>2, QueueSets
<1>7. t \in PQ!Waiting /\ \A u \in PQ!Waiting : t <= u
  BY <1>2, <1>4, <1>6, OldestHasLeastTicket DEF TicketsOf
<1>8. nextTicket' = nextTicket /\ Delivered' = Delivered
  BY <1>1 DEF InPlace, Delivered
<1>9. PQ!Begin(t)
  BY <1>2, <1>5, <1>6, <1>7, <1>8 DEF PQ!Begin, Verdicts
<1> QED BY <1>9

(* A refused start shows nothing.                                          *)
LEMMA RefusedStutters ==
  ASSUME ServiceInv, ServiceInv', NEW now \in Time, NEW i \in Index, StartRefused(i, now)
  PROVE  UNCHANGED PQ!vars
<1>1. InPlace
  BY StationaryInPlace DEF Stationary
<1>2. \A j \in Index : slots'[j].state = slots[j].state
  BY DEF StartRefused, ServiceInv, TypeOK, Slot
<1>3. Verdicts' = Verdicts
  BY <1>1, <1>2, VerdictsStay
<1> QED BY <1>1, <1>3 DEF PQ!vars, Verdicts, InPlace, Delivered, StartRefused

LEMMA CancelRefined ==
  ASSUME ServiceInv, ServiceInv', NEW now \in Time, NEW i \in Index, AbortQueued(i, now)
  PROVE  \E t \in 1 .. nextTicket - 1 : PQ!Cancel(t)
<1>1. InPlace
  BY StationaryInPlace DEF Stationary
<1>2. i \in Queued /\ Live(i) /\ state' = state /\ executing = NoIndex
  BY DEF AbortQueued, OwnerFree, Live, Queued
<1>3. slots'[i].state = "canceled" /\ \A j \in Index : j # i => slots'[j].state = slots[j].state
  BY DEF ServiceInv, TypeOK, Slot, AbortQueued, Canceled
<1>4. PICK t \in 1 .. nextTicket - 1 : t = slots[i].ticket
  BY <1>1, <1>2, <1>3, OneVerdict
<1>5. Verdicts' = [Verdicts EXCEPT ![t] = "canceled"]
  <2>1. Verdicts' = [Verdicts EXCEPT ![slots[i].ticket] = Shows(slots'[i].state)]
    BY <1>1, <1>2, <1>3, OneVerdict
  <2> QED BY <1>3, <1>4, <2>1 DEF Shows, Kind
<1>6. PQ!Proving = {} /\ t \in PQ!Waiting
  BY <1>2, <1>4, QueueSets DEF TicketsOf
<1>7. nextTicket' = nextTicket /\ Delivered' = Delivered
  BY <1>1 DEF InPlace, Delivered
<1>8. PQ!Cancel(t)
  BY <1>2, <1>5, <1>6, <1>7 DEF PQ!Cancel, Verdicts
<1> QED BY <1>8

LEMMA DecideRefined ==
  ASSUME ServiceInv, ServiceInv', NEW now \in Time, Complete(now) \/ FailRequest(now)
  PROVE  \E t \in 1 .. nextTicket - 1 : \E v \in {"proof", "failure"} : PQ!Decide(t, v)
<1>1. Settles(now) /\ InPlace
  BY StationaryInPlace DEF Stationary, Settles
<1>2. PICK i \in Index : i = executing
  BY <1>1, SettlesSlots
<1>3. /\ executing # NoIndex /\ slots[i].state = "running" /\ Live(i)
      /\ state = "ready" /\ state' = "ready"
  BY <1>2, ExecutingSlot DEF Complete, FailRequest, Live
<1>4. slots'[i].state \in {"completed", "failed"}
  BY <1>1, <1>2, SettlesSlots
<1>5. \A j \in Index : j # i => slots'[j].state = slots[j].state
  BY <1>1, <1>2, <1>3, SettlesSlots
<1>6. PICK t \in 1 .. nextTicket - 1 : t = slots[i].ticket
  BY <1>1, <1>3, <1>5, OneVerdict
<1>7. Verdicts' = [Verdicts EXCEPT ![t] = Shows(slots'[i].state)]
  BY <1>1, <1>3, <1>5, <1>6, OneVerdict
<1>8. Shows(slots'[i].state) \in {"proof", "failure"}
  BY <1>4 DEF Shows, Kind
<1>9. t \in PQ!Proving
  BY <1>2, <1>3, <1>6, QueueSets
<1>10. nextTicket' = nextTicket /\ Delivered' = Delivered
  BY <1>1 DEF InPlace, Delivered
<1>11. PQ!Decide(t, Shows(slots'[i].state))
  BY <1>3, <1>7, <1>8, <1>9, <1>10 DEF PQ!Decide, Verdicts
<1> QED BY <1>8, <1>11

(* A poisoning fails the ticket that is proved and cancels all that wait.  *)
LEMMA BreakRefined ==
  ASSUME ServiceInv, ServiceInv', NEW now \in Time, NEW made \in BOOLEAN,
         NEW accounted \in BOOLEAN, Poison(made, accounted, now)
  PROVE  PQ!Break
<1>1. Settles(now) /\ InPlace /\ VerdictsRead
  BY StationaryInPlace, ReadVerdicts DEF Stationary, Settles
<1>2. PICK i \in Index : i = executing
  BY <1>1, SettlesSlots
<1>3. /\ executing # NoIndex /\ slots[i].state = "running" /\ Live(i)
      /\ state = "ready" /\ state' = "poisoned"
  BY <1>2, ExecutingSlot DEF Poison, AbortRuntime, Live
<1>4. slots \in [Index -> Slot] /\ nextTicket \in Nat /\ Delivered \in Nat
  BY ServiceTypes
<1>5. slots'[i].state = "failed"
  <2> DEFINE finish == IF accounted THEN now ELSE slots[executing].finished
  <2>1. slots' = [j \in Index |->
                    CASE j = executing -> Settled(slots[executing], "failed", FALSE, finish)
                      [] j \in Queued -> Canceled(slots[j], now)
                      [] OTHER -> slots[j]]
    BY DEF Poison, CanceledByPoison
  <2> HIDE DEF finish
  <2>2. executing \in Index /\ executing \notin Queued /\ slots[executing] \in Slot
    BY <1>2, <1>3, <1>4 DEF Queued
  <2>3. slots'[executing] = Settled(slots[executing], "failed", FALSE, finish)
    BY <2>1, <2>2
  <2>4. slots'[executing].state = "failed"
    BY <2>2, <2>3 DEF Settled, Slot
  <2> QED BY <1>2, <2>4
<1>6. \A j \in Queued : slots'[j].state = "canceled"
  <2> SUFFICES ASSUME NEW j \in Queued PROVE slots'[j].state = "canceled"
    OBVIOUS
  <2>1. j \in Index /\ j # i
    BY <1>3 DEF Queued
  <2>2. slots'[j] = Canceled(slots[j], now)
    BY <1>2, <2>1 DEF Poison, CanceledByPoison
  <2>3. slots[j] \in Slot
    BY <1>4, <2>1
  <2> QED BY <2>2, <2>3 DEF Canceled, Slot
<1>7. \A j \in Index : j # i /\ j \notin Queued => slots'[j] = slots[j]
  BY <1>1, <1>2, SettlesSlots
<1>8. PQ!Proving = {slots[i].ticket} /\ PQ!Waiting = TicketsOf(Queued)
  BY <1>2, <1>3, QueueSets
<1>9. ASSUME NEW t \in 1 .. nextTicket - 1
      PROVE  VerdictOf(t)' = CASE t \in PQ!Proving -> "failure"
                               [] t \in PQ!Waiting -> "canceled"
                               [] OTHER            -> VerdictOf(t)
  <2>1. CASE t \in PQ!Proving
    <3>1. slots[i].ticket = t
      BY <1>8, <2>1
    <3>2. VerdictOf(t)' = Shows(slots'[i].state)
      BY <1>1, <1>3, <3>1, VerdictsInPlace
    <3>3. Shows(slots'[i].state) = "failure"
      BY <1>5 DEF Shows, Kind
    <3>4. t \notin PQ!Waiting
      BY <2>1 DEF PQ!Proving, PQ!Waiting
    <3> QED BY <2>1, <3>2, <3>3, <3>4
  <2>2. CASE t \notin PQ!Proving /\ t \in PQ!Waiting
    <3>1. PICK j \in Queued : t = slots[j].ticket
      BY <1>8, <2>2 DEF TicketsOf
    <3>2. Live(j) /\ j \in Index
      BY DEF Live, Queued
    <3>3. VerdictOf(t)' = Shows(slots'[j].state)
      BY <1>1, <3>1, <3>2, VerdictsInPlace
    <3> QED BY <1>6, <2>2, <3>3 DEF Shows, Kind
  <2>3. CASE t \notin PQ!Proving /\ t \notin PQ!Waiting
    <3>1. CASE \E j \in Index : Live(j) /\ slots[j].ticket = t
      <4>1. PICK j \in Index : Live(j) /\ slots[j].ticket = t
        BY <3>1
      <4>2. slots'[j] = slots[j]
        BY <1>7, <1>8, <2>3, <4>1 DEF TicketsOf
      <4>3. VerdictOf(t)' = Shows(slots'[j].state)
        BY <1>1, <4>1, VerdictsInPlace
      <4>4. VerdictOf(t) = Shows(slots[j].state)
        BY <1>1, <4>1 DEF VerdictsRead
      <4> QED BY <2>3, <4>2, <4>3, <4>4
    <3>2. CASE ~\E j \in Index : Live(j) /\ slots[j].ticket = t
      BY <1>1, <2>3, <3>2, VerdictsInPlace
    <3> QED BY <3>1, <3>2
  <2> QED BY <2>1, <2>2, <2>3
<1>10. nextTicket' = nextTicket /\ Delivered' = Delivered
  BY <1>1 DEF InPlace, Delivered
<1>11. Verdicts' = [t \in 1 .. nextTicket - 1 |->
                      CASE t \in PQ!Proving -> "failure"
                        [] t \in PQ!Waiting -> "canceled"
                        [] OTHER            -> Verdicts[t]]
  BY <1>9, <1>10 DEF Verdicts
<1> QED BY <1>3, <1>8, <1>10, <1>11 DEF PQ!Break, Verdicts

LEMMA DeliverRefined ==
  ASSUME ServiceInv, ServiceInv', PublishNext
  PROVE  PQ!Deliver
<1>0. VerdictsRead /\ VerdictsRead'
  <2>1. VerdictsRead
    BY ReadVerdicts
  <2>2. ServiceInv' => VerdictsRead'
    BY ReadVerdicts, PTL
  <2> QED BY <2>1, <2>2
<1>1. PICK h \in Index : h = head
  BY DEF ServiceInv, TypeOK
<1>2. /\ slots[h].state \in Finished /\ Live(h) /\ executing = NoIndex /\ Serving
      /\ slots[h].ticket = Delivered + 1
  <2>1. slots[h].state \in Finished /\ Live(h) /\ executing = NoIndex
    BY <1>1 DEF PublishNext, OwnerFree, Live, Finished
  <2>2. Offset(h) = 0
    BY <1>1, LimitsAssumption DEF Offset, Index
  <2> QED BY <2>1, <2>2, LiveSlots, ServiceTypes DEF Live
<1>3. /\ \A i \in Index : i # h => slots'[i] = slots[i]
      /\ nextTicket' = nextTicket /\ state' = state /\ Serving'
  BY <1>1, <1>2, ServiceTypes DEF PublishNext, Serving
<1>4. published' = Append(published, [ticket |-> Delivered + 1, kind |-> Kind[slots[h].state]])
  BY <1>1, <1>2 DEF PublishNext
<1>5. /\ Delivered' = Delivered + 1
      /\ \A n \in 1 .. Delivered + 1 :
           published'[n] = IF n <= Delivered THEN published[n]
                           ELSE [ticket |-> Delivered + 1, kind |-> Kind[slots[h].state]]
  <2>1. TypeOK
    BY DEF ServiceInv
  <2> QED BY <1>4, <2>1 DEF Delivered, TypeOK
<1>6. Delivered + 1 \in 1 .. nextTicket - 1
  BY <1>0, <1>2, ServiceTypes DEF VerdictsRead
<1>7. VerdictOf(Delivered + 1) = Kind[slots[h].state] /\ Kind[slots[h].state] \in PQ!Final
  <2>1. VerdictOf(Delivered + 1) = Shows(slots[h].state)
    BY <1>0, <1>2 DEF VerdictsRead
  <2> QED BY <1>2, <2>1 DEF Shows, Kind, Finished, PQ!Final
<1>8. ASSUME NEW t \in 1 .. nextTicket - 1 PROVE VerdictOf(t)' = VerdictOf(t)
  <2>1. CASE t <= Delivered
    <3>1. VerdictOf(t)' = published'[t].kind /\ VerdictOf(t) = published[t].kind
      BY <1>0, <1>3, <1>5, <2>1, ServiceTypes DEF VerdictsRead
    <3> QED BY <1>5, <2>1, <3>1, ServiceTypes
  <2>2. CASE t = Delivered + 1
    <3>1. VerdictOf(t)' = published'[t].kind
      BY <1>0, <1>3, <1>5, <2>2, ServiceTypes DEF VerdictsRead
    <3>2. published'[t].kind = Kind[slots[h].state]
      BY <1>5, <1>6, <2>2, ServiceTypes
    <3> QED BY <1>7, <2>2, <3>1, <3>2
  <2>3. CASE t > Delivered + 1
    <3>1. PICK i \in Index : Live(i) /\ slots[i].ticket = t
      BY <1>0, <1>2, <2>3, ServiceTypes DEF VerdictsRead
    <3>2. slots'[i] = slots[i] /\ Live(i)'
      BY <1>2, <1>3, <2>3, <3>1, ServiceTypes DEF Live
    <3> QED BY <1>0, <3>1, <3>2 DEF VerdictsRead
  <2> QED BY <2>1, <2>2, <2>3, ServiceTypes
<1>9. Verdicts' = Verdicts
  BY <1>3, <1>8 DEF Verdicts
<1>10. PQ!Proving = {}
  BY <1>2, QueueSets
<1>11. Mode # "stopped" /\ Mode' = Mode
  BY <1>2, <1>3 DEF Mode, Serving
<1>12. Delivered < nextTicket - 1
  BY <1>6, ServiceTypes
<1> QED BY <1>3, <1>5, <1>6, <1>7, <1>9, <1>10, <1>11, <1>12
        DEF PQ!Deliver, Verdicts, Mode

(* A drained service has delivered everything.                             *)
LEMMA DrainedDelivered ==
  ASSUME ServiceInv, Serving, count = 0
  PROVE  nextTicket - 1 = Delivered
  BY ServiceTypes DEF ServiceInv, RingHoldsUnpublished

(* Stopping abandons what is not delivered; a second stop shows nothing.   *)
LEMMA StopRefined ==
  ASSUME ServiceInv, ServiceInv', Close \/ AbortAll \/ Deinit
  PROVE  PQ!Stop \/ UNCHANGED PQ!vars
<1>0. /\ VerdictsRead /\ VerdictsRead'
  <2>1. VerdictsRead
    BY ReadVerdicts
  <2>2. ServiceInv' => VerdictsRead'
    BY ReadVerdicts, PTL
  <2> QED BY <2>1, <2>2
<1>1. /\ nextTicket' = nextTicket /\ published' = published /\ Delivered' = Delivered
      /\ state' \in {"stopped", "destroyed"} /\ ~Serving' /\ executing = NoIndex
  BY DEF Close, AbortAll, Deinit, OwnerFree, DestroySlots, Delivered, Serving, fates
<1>2. \A t \in 1 .. nextTicket - 1 :
        VerdictOf(t)' = IF t > Delivered THEN "abandoned" ELSE VerdictOf(t)
  <2> SUFFICES ASSUME NEW t \in 1 .. nextTicket - 1
               PROVE VerdictOf(t)' = IF t > Delivered THEN "abandoned" ELSE VerdictOf(t)
    OBVIOUS
  <2>1. CASE t > Delivered
    BY <1>0, <1>1, <2>1 DEF VerdictsRead
  <2>2. CASE t <= Delivered
    BY <1>0, <1>1, <2>2, ServiceTypes DEF VerdictsRead
  <2> QED BY <2>1, <2>2, ServiceTypes
<1>3. Mode' = "stopped"
  BY <1>1 DEF Mode
<1>4. CASE Serving
  <2>1. Mode # "stopped"
    BY <1>4 DEF Mode, Serving
  <2>2. PQ!Proving = {}
    BY <1>1, QueueSets
  <2>3. Verdicts' = [t \in 1 .. nextTicket - 1 |->
                       IF t > Delivered THEN "abandoned" ELSE Verdicts[t]]
    BY <1>1, <1>2 DEF Verdicts
  <2> QED BY <1>1, <1>3, <2>1, <2>2, <2>3 DEF PQ!Stop, Verdicts, Mode
<1>5. CASE ~Serving
  <2>1. \A t \in 1 .. nextTicket - 1 : VerdictOf(t)' = VerdictOf(t)
    BY <1>0, <1>2, <1>5 DEF VerdictsRead
  <2>2. Verdicts' = Verdicts
    BY <1>1, <2>1 DEF Verdicts
  <2>3. Mode = "stopped"
    BY <1>5 DEF Mode, Serving
  <2> QED BY <1>1, <1>3, <2>2, <2>3 DEF PQ!vars, Verdicts, Mode
<1> QED BY <1>4, <1>5

(* With everything delivered, the state changes and no verdict does.       *)
LEMMA CloseFailsRefined ==
  ASSUME ServiceInv, ServiceInv', CloseFails
  PROVE  PQ!Break
<1>1. /\ nextTicket' = nextTicket /\ Delivered' = Delivered /\ published' = published
      /\ state = "ready" /\ state' = "poisoned" /\ executing = NoIndex /\ count = 0
  BY DEF CloseFails, AbortRuntime, OwnerFree, Drained, Delivered, fates
<1>2. nextTicket - 1 = Delivered
  BY <1>1, DrainedDelivered DEF Serving
<1>3. \A t \in 1 .. nextTicket - 1 : VerdictOf(t)' = VerdictOf(t)
  BY <1>1, <1>2, ServiceTypes DEF VerdictOf
<1>4. PQ!Proving = {} /\ PQ!Waiting = {}
  <2>1. Queued = {}
    BY <1>1, LiveSlots, ServiceTypes DEF Queued
  <2> QED BY <1>1, <2>1, QueueSets DEF TicketsOf
<1>5. Verdicts' = [t \in 1 .. nextTicket - 1 |->
                     CASE t \in PQ!Proving -> "failure"
                       [] t \in PQ!Waiting -> "canceled"
                       [] OTHER            -> Verdicts[t]]
  BY <1>1, <1>3, <1>4 DEF Verdicts
<1> QED BY <1>1, <1>2, <1>5 DEF PQ!Break, Verdicts

LEMMA RenewRefined ==
  ASSUME ServiceInv, ServiceInv', Reset
  PROVE  PQ!Renew
<1>1. /\ nextTicket' = nextTicket /\ Delivered' = Delivered /\ published' = published
      /\ state = "poisoned" /\ state' = "ready" /\ count = 0
  BY DEF Reset, CanReset, Drained, Delivered, fates
<1>2. nextTicket - 1 = Delivered
  BY <1>1, DrainedDelivered DEF Serving
<1>3. \A t \in 1 .. nextTicket - 1 : VerdictOf(t)' = VerdictOf(t)
  BY <1>1, <1>2, ServiceTypes DEF VerdictOf
<1>4. Verdicts' = Verdicts
  BY <1>1, <1>3 DEF Verdicts
<1> QED BY <1>1, <1>2, <1>4 DEF PQ!Renew, Verdicts

(* What callers see of the service, with its ring, clock, byte budget and  *)
(* lock, is a queue of tickets that are answered once and in order: every  *)
(* call is a step of ProofQueue or invisible (request_service.zig 1-20).   *)
THEOREM QueueRefined == Spec => ImplementsProofQueue
<1>1. Init => PQ!Init
  BY DEF Init, PQ!Init, Delivered
<1>2. ASSUME ServiceInv, ServiceInv', [Next]_vars PROVE [PQ!Next]_(PQ!vars)
  <2>1. CASE \E device \in DeviceSizes, retained \in InputSizes, now \in Time :
               Submit(device, retained, now)
    BY <1>2, <2>1, AdmitRefined DEF PQ!Next
  <2>2. ASSUME NEW now \in Time, Stationary(now) PROVE [PQ!Next]_(PQ!vars)
    BY <1>2, <2>2, StartRefined, RefusedStutters, CancelRefined, DecideRefined, BreakRefined
       DEF Stationary, Settles, PQ!Next
  <2>3. CASE PublishNext
    BY <1>2, <2>3, DeliverRefined DEF PQ!Next
  <2>4. CASE Close \/ CloseFails \/ AbortAll \/ Reset \/ Deinit
    BY <1>2, <2>4, StopRefined, CloseFailsRefined, RenewRefined DEF PQ!Next
  <2>5. CASE UNCHANGED vars
    <3>1. UNCHANGED <<nextTicket, slots, head, published, state>>
      BY <2>5 DEF vars, ring, fates
    <3>2. Delivered' = Delivered /\ \A t \in 1 .. nextTicket - 1 : VerdictOf(t)' = VerdictOf(t)
      BY <3>1 DEF VerdictOf, SlotOf, Delivered, Serving
    <3>3. Verdicts' = Verdicts
      BY <3>1, <3>2 DEF Verdicts
    <3> QED BY <3>1, <3>2, <3>3 DEF PQ!vars, Verdicts
  <2> QED BY <1>2, <2>1, <2>2, <2>3, <2>4, <2>5, NextCases DEF ServiceInv
<1> QED BY <1>1, <1>2, Invariance, PTL DEF Spec, ImplementsProofQueue, PQ!Spec

-----------------------------------------------------------------------------
(* Receipts and owners: what a slot records about itself, whatever the     *)
(* rest of the ring does.                                                  *)
Dated(s) ==
  /\ s.state \in {"running", "completed"} => s.admitted <= s.started
  /\ s.state = "completed" => s.started <= s.finished

Keeps(s) ==
  /\ s.request <=> s.state \in {"queued", "running"}
  /\ s.proof <=> s.state = "completed"

RecordInv == \A i \in Index : Dated(slots[i]) /\ Keeps(slots[i])

LEMMA SettledRecord ==
  ASSUME NEW s \in Slot, s.state = "running", NEW finish, NEW made \in BOOLEAN, Dated(s),
         made => s.started <= finish
  PROVE  LET r == Settled(s, IF made THEN "completed" ELSE "failed", made, finish)
         IN  Dated(r) /\ Keeps(r)
  BY DEF Settled, Slot, Dated, Keeps

LEMMA CanceledRecord ==
  ASSUME NEW s \in Slot, s.state = "queued", Keeps(s), NEW now
  PROVE  LET r == Canceled(s, now) IN Dated(r) /\ Keeps(r)
  BY DEF Canceled, Slot, Dated, Keeps

LEMMA RecordStep == ServiceInv /\ RecordInv /\ [Next]_vars => RecordInv'
<1> SUFFICES ASSUME ServiceInv, RecordInv, [Next]_vars PROVE RecordInv'
  OBVIOUS
<1>0. slots \in [Index -> Slot] /\ \A i \in Index : Dated(slots[i]) /\ Keeps(slots[i])
  BY ServiceTypes DEF RecordInv
<1>1. Dated(Vacant) /\ Keeps(Vacant)
  BY DEF Dated, Keeps, Vacant
<1>2. ASSUME NEW device, NEW retained, NEW now, Submit(device, retained, now) PROVE RecordInv'
  <2>1. tail \in Index /\ \A i \in Index : i # tail => slots'[i] = slots[i]
    BY <1>2, SubmitSlot
  <2>2. slots'[tail] = [state |-> "queued", request |-> TRUE, proof |-> FALSE,
                        ticket |-> nextTicket, generation |-> generation,
                        retained |-> retained, admitted |-> now, started |-> 0,
                        finished |-> 0]
    BY <1>0, <1>2, <2>1 DEF Submit, NextSlot
  <2>3. Dated(slots'[tail]) /\ Keeps(slots'[tail])
    BY <2>2 DEF Dated, Keeps
  <2> QED BY <1>0, <2>1, <2>3 DEF RecordInv
<1>3. ASSUME NEW now \in Time, NEW i \in Index, Start(i, now) \/ StartRefused(i, now)
      PROVE  RecordInv'
  <2>1. slots[i].state = "queued"
    BY <1>3 DEF Start, StartRefused, OldestQueued, Queued
  <2>2. CASE Start(i, now)
    <3>1. /\ \A j \in Index : j # i => slots'[j] = slots[j]
          /\ slots'[i] = [slots[i] EXCEPT !.state = "running", !.started = now]
          /\ slots[i].admitted <= now
      BY <1>0, <2>2 DEF Start
    <3>2. Dated(slots'[i]) /\ Keeps(slots'[i])
      BY <1>0, <2>1, <3>1 DEF Dated, Keeps, Slot
    <3> QED BY <1>0, <3>1, <3>2 DEF RecordInv
  <2>3. CASE StartRefused(i, now)
    <3>1. /\ \A j \in Index : j # i => slots'[j] = slots[j]
          /\ slots'[i] = [slots[i] EXCEPT !.started = now]
      BY <1>0, <2>3 DEF StartRefused
    <3>2. Dated(slots'[i]) /\ Keeps(slots'[i])
      BY <1>0, <2>1, <3>1 DEF Dated, Keeps, Slot
    <3> QED BY <1>0, <3>1, <3>2 DEF RecordInv
  <2> QED BY <1>3, <2>2, <2>3
<1>4. ASSUME NEW now \in Time, NEW i \in Index, AbortQueued(i, now) PROVE RecordInv'
  <2>1. /\ slots[i].state = "queued" /\ slots'[i] = Canceled(slots[i], now)
        /\ \A j \in Index : j # i => slots'[j] = slots[j]
    BY <1>0, <1>4 DEF AbortQueued, Queued
  <2>2. Dated(slots'[i]) /\ Keeps(slots'[i])
    BY <1>0, <2>1, CanceledRecord
  <2> QED BY <1>0, <2>1, <2>2 DEF RecordInv
<1>5. ASSUME NEW now \in Time, Settles(now) PROVE RecordInv'
  <2>1. /\ executing \in Index /\ slots[executing].state = "running"
        /\ executing \notin Queued
    BY <1>5, SettlesSlots DEF Queued
  <2>2. Dated(slots'[executing]) /\ Keeps(slots'[executing])
    <3>1. CASE Complete(now)
      <4>1. slots'[executing] = Settled(slots[executing], "completed", TRUE, now)
            /\ slots[executing].started <= now
        BY <1>0, <2>1, <3>1 DEF Complete, Accounted
      <4> QED BY <1>0, <2>1, <4>1, SettledRecord
    <3>2. CASE FailRequest(now)
      <4>1. slots'[executing] = Settled(slots[executing], "failed", FALSE, now)
        BY <1>0, <2>1, <3>2 DEF FailRequest
      <4> QED BY <1>0, <2>1, <4>1, SettledRecord
    <3>3. ASSUME NEW made \in BOOLEAN, NEW accounted \in BOOLEAN, Poison(made, accounted, now)
          PROVE  Dated(slots'[executing]) /\ Keeps(slots'[executing])
      <4> DEFINE finish == IF accounted THEN now ELSE slots[executing].finished
      <4>1. slots' = [j \in Index |->
                        CASE j = executing -> Settled(slots[executing], "failed", FALSE, finish)
                          [] j \in Queued -> Canceled(slots[j], now)
                          [] OTHER -> slots[j]]
        BY <3>3 DEF Poison, CanceledByPoison
      <4> HIDE DEF finish
      <4>2. slots'[executing] = Settled(slots[executing], "failed", FALSE, finish)
        BY <2>1, <4>1
      <4> QED BY <1>0, <2>1, <4>2, SettledRecord
    <3> QED BY <1>5, <3>1, <3>2, <3>3 DEF Settles
  <2>3. \A j \in Index : j # executing =>
          slots'[j] = slots[j] \/ (j \in Queued /\ slots'[j] = Canceled(slots[j], now))
    BY <1>5, SettlesSlots
  <2>4. \A j \in Index : j \in Queued /\ slots'[j] = Canceled(slots[j], now) =>
          Dated(slots'[j]) /\ Keeps(slots'[j])
    BY <1>0, CanceledRecord DEF Queued
  <2> QED BY <1>0, <2>2, <2>3, <2>4 DEF RecordInv
<1>6. CASE PublishNext
  <2>1. \A i \in Index : slots'[i] = slots[i] \/ slots'[i] = Vacant
    BY <1>0, <1>6 DEF PublishNext
  <2> QED BY <1>0, <1>1, <2>1 DEF RecordInv
<1>7. CASE Close \/ CloseFails \/ AbortAll \/ Reset \/ Deinit
  <2>1. \A i \in Index : slots'[i] = slots[i] \/ slots'[i] = Vacant
    BY <1>7 DEF Close, CloseFails, AbortAll, Reset, Deinit, DestroySlots
  <2> QED BY <1>0, <1>1, <2>1 DEF RecordInv
<1>8. CASE UNCHANGED vars
  BY <1>0, <1>8 DEF vars, RecordInv
<1>9. ASSUME NEW now \in Time, Stationary(now) PROVE RecordInv'
  BY <1>3, <1>4, <1>5, <1>9 DEF Stationary
<1> QED BY <1>2, <1>6, <1>7, <1>8, <1>9, NextCases DEF ServiceInv

LEMMA RecordInvariance == Spec => [](ServiceInv /\ RecordInv)
<1>1. Init => RecordInv
  BY DEF Init, RecordInv, Dated, Keeps, Vacant
<1>2. ServiceInv /\ RecordInv /\ ServiceInv' /\ [Next]_vars => RecordInv'
  BY RecordStep
<1> QED BY <1>1, <1>2, Invariance, PTL DEF Spec

(* A clock that goes back never dates a proof's start before its           *)
(* admission, or its end before its start (request_service.zig 278-287,    *)
(* 639-669).                                                               *)
THEOREM ReceiptsOrdered == Spec => []ProofReceiptsOrdered
<1>1. RecordInv => ProofReceiptsOrdered
  BY DEF RecordInv, Dated, ProofReceiptsOrdered
<1> QED BY <1>1, RecordInvariance, PTL

-----------------------------------------------------------------------------
(* The owners of requests and proofs, told by ticket.                      *)
Holding == TicketsOf({i \in Index : slots[i].request})
Made    == TicketsOf({i \in Index : slots[i].proof})

RequestsPlaced ==
  \A t \in Tickets :
    requestAt[t] = IF t >= nextTicket THEN "caller"
                   ELSE IF t \in Holding THEN "service" ELSE "freed"

ProofsPlaced ==
  \A t \in Tickets :
    /\ proofAt[t] # "twice"
    /\ proofAt[t] = "service" <=> t \in Made
    /\ proofAt[t] = "caller" <=> t <= Delivered /\ published[t].kind = "proof"

OwnerInv == ServiceInv /\ RecordInv /\ RequestsPlaced /\ ProofsPlaced

(* Only a slot that is in use holds anything, and tickets name slots.      *)
LEMMA HoldersLive ==
  ASSUME ServiceInv, RecordInv
  PROVE  /\ \A i \in Index : slots[i].request \/ slots[i].proof =>
              slots[i].ticket \in Tickets /\ slots[i].ticket < nextTicket
                /\ slots[i].ticket > Delivered
         /\ \A i, j \in Index : Live(i) /\ Live(j) /\ slots[i].ticket = slots[j].ticket => i = j
         /\ \A i \in Index : slots[i].request \/ slots[i].proof => Live(i)
<1>1. VerdictsRead /\ nextTicket \in Nat /\ Delivered \in Nat
  BY ReadVerdicts, ServiceTypes
<1>2. \A i \in Index : slots[i].request \/ slots[i].proof => Live(i)
  BY DEF RecordInv, Keeps, Live
<1>3. \A i \in Index : Live(i) => slots[i].ticket \in Tickets
  BY LiveSlots DEF Live
<1> QED BY <1>1, <1>2, <1>3 DEF VerdictsRead

(* A step that ends the service's hold on the requests S, and no other's.  *)
LEMMA RequestsReleased ==
  ASSUME OwnerInv, NEW S, S \subseteq Holding, FreeRequests(S),
         nextTicket' = nextTicket, Holding' = Holding \ S
  PROVE  RequestsPlaced'
<1>1. \A t \in Holding : t \in Tickets /\ t < nextTicket
  BY HoldersLive DEF Holding, TicketsOf, OwnerInv
<1>2. ASSUME NEW t \in Tickets
      PROVE  requestAt'[t] = IF t >= nextTicket THEN "caller"
                             ELSE IF t \in Holding' THEN "service" ELSE "freed"
  <2>1. requestAt'[t] = IF t \in S THEN Free(requestAt[t]) ELSE requestAt[t]
    BY DEF FreeRequests
  <2>2. t \in Nat /\ nextTicket \in Nat
    BY ServiceTypes DEF OwnerInv, Tickets
  <2>3. CASE t \in S
    <3>1. requestAt[t] = "service" /\ ~(t >= nextTicket) /\ t \notin Holding'
      BY <1>1, <2>2, <2>3 DEF OwnerInv, RequestsPlaced
    <3> QED BY <2>1, <2>3, <3>1 DEF Free
  <2>4. CASE t \notin S
    <3>1. t \in Holding <=> t \in Holding'
      BY <2>4
    <3> QED BY <2>1, <2>4, <3>1 DEF OwnerInv, RequestsPlaced
  <2> QED BY <2>3, <2>4
<1> QED BY <1>2 DEF RequestsPlaced

LEMMA RequestsStay ==
  ASSUME OwnerInv, requestAt' = requestAt, nextTicket' = nextTicket, Holding' = Holding
  PROVE  RequestsPlaced'
  BY DEF OwnerInv, RequestsPlaced

(* In a step that keeps places, holders change slot by slot.               *)
LEMMA HoldingInPlace ==
  ASSUME RecordInv', InPlace
  PROVE  /\ Holding' = TicketsOf({i \in Index : slots'[i].state \in {"queued", "running"}})
         /\ Made' = TicketsOf({i \in Index : slots'[i].state = "completed"})
  BY DEF InPlace, Holding, Made, TicketsOf, RecordInv, Keeps

LEMMA HoldersByState ==
  ASSUME RecordInv
  PROVE  /\ Holding = TicketsOf({i \in Index : slots[i].state \in {"queued", "running"}})
         /\ Made = TicketsOf({i \in Index : slots[i].state = "completed"})
  BY DEF Holding, Made, RecordInv, Keeps

(* The request of one slot is freed, and only that.                        *)
LEMMA OneReleased ==
  ASSUME OwnerInv, RecordInv', InPlace, NEW i \in Index, slots[i].state \in {"queued", "running"},
         slots'[i].state \in Finished, \A j \in Index : j # i => slots'[j].state = slots[j].state,
         FreeRequests({slots[i].ticket})
  PROVE  RequestsPlaced'
<1>1. \A j \in Index : slots[j].state \in {"queued", "running"} /\ slots[j].ticket = slots[i].ticket
        => j = i
  BY HoldersLive DEF OwnerInv, Live
<1>2. Holding' = Holding \ {slots[i].ticket} /\ {slots[i].ticket} \subseteq Holding
  BY <1>1, HoldingInPlace, HoldersByState DEF OwnerInv, TicketsOf, Finished
<1> QED BY <1>2, RequestsReleased DEF InPlace

LEMMA RequestStep == OwnerInv /\ ServiceInv' /\ RecordInv' /\ [Next]_vars => RequestsPlaced'
<1> SUFFICES ASSUME OwnerInv, ServiceInv', RecordInv', [Next]_vars PROVE RequestsPlaced'
  OBVIOUS
<1>0. ServiceInv /\ RecordInv /\ slots \in [Index -> Slot]
  BY ServiceTypes DEF OwnerInv
<1>1. ASSUME NEW device, NEW retained, NEW now, Submit(device, retained, now)
      PROVE  RequestsPlaced'
  <2>1. /\ tail \in Index /\ ~slots[tail].request
        /\ slots'[tail].request /\ slots'[tail].ticket = nextTicket
        /\ \A i \in Index : i # tail => slots'[i] = slots[i]
    BY <1>0, <1>1, SubmitSlot DEF RecordInv, Keeps, Submit, NextSlot
  <2>2. Holding' = Holding \union {nextTicket}
    BY <2>1 DEF Holding, TicketsOf
  <2>3. nextTicket' = nextTicket + 1 /\ nextTicket \in Nat
        /\ requestAt' = [requestAt EXCEPT ![nextTicket] = "service"]
        /\ requestAt \in [Tickets -> Holder]
    BY <1>0, <1>1, ServiceTypes DEF Submit, ServiceInv, TypeOK
  <2>4. ASSUME NEW t \in Tickets
        PROVE  requestAt'[t] = IF t >= nextTicket + 1 THEN "caller"
                               ELSE IF t \in Holding' THEN "service" ELSE "freed"
    BY <2>2, <2>3 DEF OwnerInv, RequestsPlaced, Tickets
  <2> QED BY <2>3, <2>4 DEF RequestsPlaced
<1>2. ASSUME NEW now \in Time, NEW i \in Index, Start(i, now) \/ StartRefused(i, now)
      PROVE  RequestsPlaced'
  <2>1. /\ slots[i].state = "queued" /\ requestAt' = requestAt /\ nextTicket' = nextTicket
        /\ \A j \in Index : j # i => slots'[j] = slots[j]
        /\ slots'[i].state \in {"queued", "running"}
    BY <1>0, <1>2 DEF Start, StartRefused, OldestQueued, Queued, fates, Slot
  <2>2. Holding' = Holding
    <3>1. \A j \in Index : slots'[j].state \in {"queued", "running"}
                             <=> slots[j].state \in {"queued", "running"}
      BY <2>1
    <3> QED BY <1>0, <1>2, <3>1, StationaryInPlace, HoldingInPlace, HoldersByState DEF Stationary
  <2> QED BY <2>1, <2>2, RequestsStay
<1>3. ASSUME NEW now \in Time, NEW i \in Index, AbortQueued(i, now) PROVE RequestsPlaced'
  <2>1. /\ slots[i].state = "queued" /\ slots'[i].state = "canceled"
        /\ \A j \in Index : j # i => slots'[j] = slots[j]
        /\ FreeRequests({slots[i].ticket})
    BY <1>0, <1>3 DEF AbortQueued, Queued, Canceled, Slot
  <2>2. InPlace
    BY <1>0, <1>3, StationaryInPlace DEF Stationary
  <2> QED BY <2>1, <2>2, OneReleased DEF Finished
<1>4. ASSUME NEW now \in Time, Complete(now) \/ FailRequest(now) PROVE RequestsPlaced'
  <2>1. InPlace /\ Settles(now)
    BY <1>0, <1>4, StationaryInPlace DEF Stationary, Settles
  <2>2. PICK i \in Index : i = executing
    BY <1>0, <2>1, SettlesSlots
  <2>3. /\ slots[i].state = "running" /\ slots'[i].state \in {"completed", "failed"}
    BY <1>0, <2>1, <2>2, SettlesSlots
  <2>4. \A j \in Index : j # i => slots'[j] = slots[j]
    BY <1>0, <1>4, <2>2 DEF Complete, FailRequest
  <2>5. FreeRequests({slots[i].ticket})
    BY <1>4, <2>2 DEF Complete, FailRequest, Settle
  <2> QED BY <2>1, <2>3, <2>4, <2>5, OneReleased DEF Finished
<1>5. ASSUME NEW now \in Time, NEW made \in BOOLEAN, NEW accounted \in BOOLEAN,
             Poison(made, accounted, now)
      PROVE  RequestsPlaced'
  <2>1. InPlace /\ Settles(now)
    BY <1>0, <1>5, StationaryInPlace DEF Stationary, Settles
  <2>2. state' = "poisoned"
    BY <1>5 DEF Poison, AbortRuntime
  <2>3. \A i \in Index : slots'[i].state \in Finished \union {"vacant"}
    BY <2>2 DEF ServiceInv, PoisonDrains
  <2>4. Holding' = {}
    BY <1>0, <2>1, <2>3, HoldingInPlace DEF TicketsOf, Finished
  <2>5. Holding = {slots[executing].ticket} \union TicketsOf(Queued)
    <3>1. \A i \in Index :
            slots[i].state \in {"queued", "running"} <=> i = executing \/ i \in Queued
      BY <1>0, <1>5, ExecutingSlot DEF Poison, Queued
    <3>2. executing \in Index
      BY <1>0, <2>1, SettlesSlots
    <3> QED BY <1>0, <3>1, <3>2, HoldersByState DEF TicketsOf, Queued
  <2>6. FreeRequests(Holding) /\ nextTicket' = nextTicket
    BY <1>5, <2>5 DEF Poison, CanceledByPoison
  <2> QED BY <2>4, <2>6, RequestsReleased
<1>6. CASE PublishNext
  <2>1. /\ head \in Index /\ slots[head].state \in Finished
        /\ slots' = [slots EXCEPT ![head] = Vacant]
        /\ requestAt' = requestAt /\ nextTicket' = nextTicket
    BY <1>0, <1>6 DEF PublishNext, ServiceInv, TypeOK
  <2>2. ~slots[head].request /\ ~slots'[head].request
        /\ \A i \in Index : i # head => slots'[i] = slots[i]
    BY <1>0, <2>1 DEF RecordInv, Keeps, Finished, Vacant
  <2>3. Holding' = Holding
    BY <2>1, <2>2 DEF Holding, TicketsOf
  <2> QED BY <2>1, <2>3, RequestsStay
<1>7. CASE Close \/ CloseFails \/ Reset \/ UNCHANGED vars
  <2>1. slots' = slots /\ requestAt' = requestAt /\ nextTicket' = nextTicket
    BY <1>7 DEF Close, CloseFails, Reset, vars, fates
  <2>2. Holding' = Holding
    BY <2>1 DEF Holding, TicketsOf
  <2> QED BY <2>1, <2>2, RequestsStay
<1>8. CASE AbortAll \/ Deinit
  <2>1. /\ slots' = [i \in Index |-> Vacant] /\ nextTicket' = nextTicket
        /\ FreeRequests(Holding)
    BY <1>8 DEF AbortAll, Deinit, DestroySlots, Holding
  <2>2. Holding' = {}
    BY <2>1 DEF Holding, TicketsOf, Vacant
  <2> QED BY <2>1, <2>2, RequestsReleased
<1>9. ASSUME NEW now \in Time, Stationary(now) PROVE RequestsPlaced'
  BY <1>2, <1>3, <1>4, <1>5, <1>9 DEF Stationary, Settles
<1> QED BY <1>0, <1>1, <1>6, <1>7, <1>8, <1>9, NextCases DEF ServiceInv

(* What a publication appends.                                             *)
LEMMA PublishedNext ==
  ASSUME ServiceInv, PublishNext
  PROVE  /\ head \in Index /\ slots[head].state \in Finished /\ Live(head)
         /\ slots[head].ticket = Delivered + 1 /\ Delivered' = Delivered + 1
         /\ \A n \in 1 .. Delivered + 1 :
              published'[n] = IF n <= Delivered THEN published[n]
                              ELSE [ticket |-> Delivered + 1, kind |-> Kind[slots[head].state]]
<1>0. TypeOK
  BY DEF ServiceInv
<1>1. head \in Index /\ slots[head].state \in Finished /\ Live(head)
  BY <1>0 DEF TypeOK, PublishNext, Live, Finished
<1>2. Offset(head) = 0
  BY <1>1, LimitsAssumption DEF Offset, Index
<1>3. slots[head].ticket = Delivered + 1
  BY <1>1, <1>2, LiveSlots, ServiceTypes DEF Live
<1>4. published' = Append(published, [ticket |-> Delivered + 1, kind |-> Kind[slots[head].state]])
  BY <1>3 DEF PublishNext
<1>5. /\ Delivered' = Delivered + 1
      /\ \A n \in 1 .. Delivered + 1 :
           published'[n] = IF n <= Delivered THEN published[n]
                           ELSE [ticket |-> Delivered + 1, kind |-> Kind[slots[head].state]]
  BY <1>0, <1>4 DEF Delivered, TypeOK
<1> QED BY <1>1, <1>3, <1>5

LEMMA ProofsStay ==
  ASSUME OwnerInv, proofAt' = proofAt, published' = published, Made' = Made
  PROVE  ProofsPlaced'
  BY DEF OwnerInv, ProofsPlaced, Delivered

LEMMA ProofStep == OwnerInv /\ ServiceInv' /\ RecordInv' /\ [Next]_vars => ProofsPlaced'
<1> SUFFICES ASSUME OwnerInv, ServiceInv', RecordInv', [Next]_vars PROVE ProofsPlaced'
  OBVIOUS
<1>0. ServiceInv /\ RecordInv /\ slots \in [Index -> Slot] /\ Delivered \in Nat
      /\ proofAt \in [Tickets -> Holder]
  BY ServiceTypes DEF OwnerInv, ServiceInv, TypeOK
<1>1. ASSUME NEW device, NEW retained, NEW now, Submit(device, retained, now)
      PROVE  ProofsPlaced'
  <2>1. /\ tail \in Index /\ ~slots[tail].proof /\ ~slots'[tail].proof
        /\ \A i \in Index : i # tail => slots'[i] = slots[i]
    BY <1>0, <1>1, SubmitSlot DEF RecordInv, Keeps
  <2>2. Made' = Made
    BY <2>1 DEF Made, TicketsOf
  <2> QED BY <1>1, <2>2, ProofsStay DEF Submit
<1>2. ASSUME NEW now \in Time, NEW i \in Index,
             Start(i, now) \/ StartRefused(i, now) \/ AbortQueued(i, now)
      PROVE  ProofsPlaced'
  <2>1. /\ slots[i].state = "queued" /\ proofAt' = proofAt /\ published' = published
        /\ \A j \in Index : j # i => slots'[j] = slots[j]
        /\ slots'[i].state \in {"queued", "running", "canceled"}
    <3>1. CASE Start(i, now)
      BY <1>0, <3>1 DEF Start, OldestQueued, Queued, fates, Slot
    <3>2. CASE StartRefused(i, now)
      BY <1>0, <3>2 DEF StartRefused, OldestQueued, Queued, fates, Slot
    <3>3. CASE AbortQueued(i, now)
      BY <1>0, <3>3 DEF AbortQueued, Queued, Canceled, Slot
    <3> QED BY <1>2, <3>1, <3>2, <3>3
  <2>2. \A j \in Index : slots'[j].state = "completed" <=> slots[j].state = "completed"
    BY <2>1
  <2>3. Made' = Made
    BY <1>0, <1>2, <2>2, StationaryInPlace, HoldingInPlace, HoldersByState DEF Stationary
  <2> QED BY <2>1, <2>3, ProofsStay
<1>3. ASSUME NEW now \in Time, FailRequest(now) PROVE ProofsPlaced'
  <2>1. Settles(now) /\ InPlace
    BY <1>0, <1>3, StationaryInPlace DEF Stationary, Settles
  <2>2. /\ executing \in Index /\ slots[executing].state = "running"
        /\ \A j \in Index : j # executing => slots'[j] = slots[j]
        /\ slots'[executing].state = "failed"
    BY <1>0, <1>3, <2>1, SettlesSlots DEF FailRequest, Settled, Slot
  <2>3. Made' = Made
    BY <1>0, <2>1, <2>2, HoldingInPlace, HoldersByState
  <2> QED BY <1>3, <2>3, ProofsStay DEF FailRequest
<1>4. ASSUME NEW now \in Time, Complete(now) PROVE ProofsPlaced'
  <2>1. Settles(now) /\ InPlace
    BY <1>0, <1>4, StationaryInPlace DEF Stationary, Settles
  <2>2. /\ executing \in Index /\ slots[executing].state = "running"
        /\ \A j \in Index : j # executing => slots'[j] = slots[j]
        /\ slots'[executing].state = "completed"
    BY <1>0, <1>4, <2>1, SettlesSlots DEF Complete, Settled, Slot
  <2>3. Made' = Made \union {slots[executing].ticket}
    BY <1>0, <2>1, <2>2, HoldingInPlace, HoldersByState DEF TicketsOf
  <2>4. /\ proofAt' = [proofAt EXCEPT ![slots[executing].ticket] = "service"]
        /\ published' = published /\ Delivered' = Delivered
    BY <1>4 DEF Complete, Delivered
  <2>5. slots[executing].ticket \in Tickets /\ ~(slots[executing].ticket <= Delivered)
    <3>1. slots[executing].request
      BY <1>0, <2>2 DEF RecordInv, Keeps
    <3> QED BY <1>0, <2>2, <3>1, HoldersLive DEF Tickets
  <2> QED BY <1>0, <2>3, <2>4, <2>5 DEF OwnerInv, ProofsPlaced
<1>5. ASSUME NEW now \in Time, NEW made \in BOOLEAN, NEW accounted \in BOOLEAN,
             Poison(made, accounted, now)
      PROVE  ProofsPlaced'
  <2>1. Settles(now) /\ InPlace
    BY <1>0, <1>5, StationaryInPlace DEF Stationary, Settles
  <2>2. executing \in Index /\ slots[executing].state = "running" /\ executing \notin Queued
    BY <1>0, <2>1, SettlesSlots DEF Queued
  <2>3. /\ slots'[executing].state # "completed"
        /\ \A j \in Index : j # executing =>
             (slots'[j].state = "completed" <=> slots[j].state = "completed")
    <3> DEFINE finish == IF accounted THEN now ELSE slots[executing].finished
    <3>1. slots' = [j \in Index |->
                      CASE j = executing -> Settled(slots[executing], "failed", FALSE, finish)
                        [] j \in Queued -> Canceled(slots[j], now)
                        [] OTHER -> slots[j]]
      BY <1>5 DEF Poison, CanceledByPoison
    <3> HIDE DEF finish
    <3>2. slots'[executing] = Settled(slots[executing], "failed", FALSE, finish)
      BY <2>2, <3>1
    <3>3. \A j \in Index : j # executing =>
            slots'[j] = slots[j] \/ (j \in Queued /\ slots'[j] = Canceled(slots[j], now))
      BY <3>1
    <3>4. slots'[executing].state = "failed"
      BY <1>0, <2>2, <3>2 DEF Settled, Slot
    <3>5. \A j \in Queued : Canceled(slots[j], now).state = "canceled" /\ slots[j].state = "queued"
      BY <1>0 DEF Canceled, Queued, Slot
    <3> QED BY <3>3, <3>4, <3>5
  <2>4. Made' = Made
    BY <1>0, <2>1, <2>2, <2>3, HoldingInPlace, HoldersByState
  <2>5. /\ proofAt' = [proofAt EXCEPT ![slots[executing].ticket] =
                         IF made THEN "freed" ELSE @]
        /\ published' = published /\ Delivered' = Delivered
    BY <1>5 DEF Poison, Delivered
  <2>6. /\ slots[executing].ticket \in Tickets /\ ~(slots[executing].ticket <= Delivered)
        /\ slots[executing].ticket \notin Made
    <3>1. slots[executing].request /\ ~slots[executing].proof
      BY <1>0, <2>2 DEF RecordInv, Keeps
    <3> QED BY <1>0, <2>2, <3>1, HoldersLive DEF Tickets, Made, TicketsOf
  <2> QED BY <1>0, <2>4, <2>5, <2>6 DEF OwnerInv, ProofsPlaced
<1>6. CASE PublishNext
  <2>1. /\ head \in Index /\ slots[head].state \in Finished /\ Live(head)
        /\ slots[head].ticket = Delivered + 1 /\ Delivered' = Delivered + 1
        /\ \A n \in 1 .. Delivered + 1 :
             published'[n] = IF n <= Delivered THEN published[n]
                             ELSE [ticket |-> Delivered + 1, kind |-> Kind[slots[head].state]]
    BY <1>0, <1>6, PublishedNext
  <2>2. slots[head].ticket \in Tickets
    BY <1>0, <2>1, LiveSlots DEF Live
  <2>3. Made' = Made \ {slots[head].ticket}
    <3>1. /\ \A i \in Index : i # head => slots'[i] = slots[i]
          /\ ~slots'[head].proof
      BY <1>0, <1>6, <2>1 DEF PublishNext, Vacant
    <3>2. \A i \in Index : slots[i].proof /\ slots[i].ticket = slots[head].ticket => i = head
      BY <1>0, <2>1, HoldersLive
    <3> QED BY <2>1, <3>1, <3>2 DEF Made, TicketsOf
  <2>4. proofAt' = [proofAt EXCEPT ![slots[head].ticket] =
                      IF slots[head].proof THEN "caller" ELSE @]
    BY <1>6 DEF PublishNext
  <2>5. slots[head].proof <=> Kind[slots[head].state] = "proof"
    BY <1>0, <2>1 DEF RecordInv, Keeps, Kind, Finished
  <2>6. slots[head].proof <=> slots[head].ticket \in Made
    BY <1>0, <2>1, HoldersLive DEF Made, TicketsOf
  <2>7. ASSUME NEW t \in Tickets, t # slots[head].ticket
        PROVE  /\ proofAt'[t] # "twice"
               /\ proofAt'[t] = "service" <=> t \in Made'
               /\ proofAt'[t] = "caller" <=> t <= Delivered' /\ published'[t].kind = "proof"
    <3>1. t <= Delivered' <=> t <= Delivered
      BY <1>0, <2>1, <2>7 DEF Tickets
    <3>2. t <= Delivered => published'[t] = published[t]
      BY <1>0, <2>1 DEF Tickets
    <3> QED BY <1>0, <2>3, <2>4, <2>7, <3>1, <3>2 DEF OwnerInv, ProofsPlaced
  <2>8. \A t \in Tickets : t = slots[head].ticket =>
          /\ proofAt'[t] # "twice"
          /\ proofAt'[t] = "service" <=> t \in Made'
          /\ proofAt'[t] = "caller" <=> t <= Delivered' /\ published'[t].kind = "proof"
    <3>1. \A t \in Tickets : t = slots[head].ticket =>
            t <= Delivered' /\ published'[t].kind = Kind[slots[head].state]
      BY <1>0, <2>1
    <3>2. proofAt[slots[head].ticket] \notin {"twice", "caller"}
      BY <1>0, <2>1, <2>2 DEF OwnerInv, ProofsPlaced
    <3>3. proofAt[slots[head].ticket] = "service" <=> slots[head].proof
      BY <2>2, <2>6 DEF OwnerInv, ProofsPlaced
    <3>4. proofAt'[slots[head].ticket] = IF slots[head].proof THEN "caller"
                                         ELSE proofAt[slots[head].ticket]
      BY <1>0, <2>2, <2>4
    <3> QED BY <2>3, <2>5, <3>1, <3>2, <3>3, <3>4
  <2> QED BY <2>7, <2>8 DEF ProofsPlaced
<1>7. CASE Close \/ CloseFails \/ Reset \/ UNCHANGED vars
  <2>1. slots' = slots /\ proofAt' = proofAt /\ published' = published
    BY <1>7 DEF Close, CloseFails, Reset, vars, fates
  <2>2. Made' = Made
    BY <2>1 DEF Made, TicketsOf
  <2> QED BY <2>1, <2>2, ProofsStay
<1>8. CASE AbortAll \/ Deinit
  <2>1. /\ slots' = [i \in Index |-> Vacant] /\ published' = published
        /\ FreeProofs(Made)
    BY <1>8 DEF AbortAll, Deinit, DestroySlots, Made
  <2>2. Made' = {}
    BY <2>1 DEF Made, TicketsOf, Vacant
  <2>3. \A t \in Tickets : proofAt'[t] = IF t \in Made THEN Free(proofAt[t]) ELSE proofAt[t]
    BY <2>1 DEF FreeProofs
  <2>4. \A t \in Made : ~(t <= Delivered)
    BY <1>0, HoldersLive DEF Made, TicketsOf, Tickets
  <2>5. Delivered' = Delivered
    BY <2>1 DEF Delivered
  <2> QED BY <2>1, <2>2, <2>3, <2>4, <2>5 DEF OwnerInv, ProofsPlaced, Free
<1>9. ASSUME NEW now \in Time, Stationary(now) PROVE ProofsPlaced'
  BY <1>2, <1>3, <1>4, <1>5, <1>9 DEF Stationary, Settles
<1> QED BY <1>0, <1>1, <1>6, <1>7, <1>8, <1>9, NextCases DEF ServiceInv

LEMMA OwnerInvariance == Spec => []OwnerInv
<1>1. Init => RequestsPlaced /\ ProofsPlaced
  <2> SUFFICES ASSUME Init PROVE RequestsPlaced /\ ProofsPlaced
    OBVIOUS
  <2>1. Made = {}
    BY DEF Init, Made, TicketsOf, Vacant
  <2> QED BY <2>1 DEF Init, RequestsPlaced, ProofsPlaced, Tickets, Delivered
<1>2. OwnerInv /\ ServiceInv' /\ RecordInv' /\ [Next]_vars => RequestsPlaced' /\ ProofsPlaced'
  BY RequestStep, ProofStep
<1> QED BY <1>1, <1>2, RecordInvariance, PTL DEF Spec, OwnerInv

(* A request taken in is freed once, and a proof ends with the caller who  *)
(* is shown it or is freed once, through every end of an execution, a      *)
(* cancellation, a poisoning and a shutdown (request_service_types.zig     *)
(* 37-38).                                                                 *)
THEOREM EachOwnedOnce == Spec => []OwnedOnce
<1> SUFFICES ASSUME OwnerInv PROVE OwnedOnce
  BY OwnerInvariance, PTL
<1>0. ServiceInv /\ RecordInv
  BY DEF OwnerInv
<1>1. \A i \in Index : Keeps(slots[i])
  BY <1>0 DEF RecordInv
<1>2. ASSUME NEW t \in Tickets
      PROVE  requestAt[t] =
               CASE t >= nextTicket -> "caller"
                 [] \E i \in Index : slots[i].ticket = t /\ slots[i].request -> "service"
                 [] OTHER -> "freed"
  <2>1. t \in Holding <=> \E i \in Index : slots[i].ticket = t /\ slots[i].request
    BY DEF Holding, TicketsOf
  <2>2. t \in Holding => ~(t >= nextTicket)
    BY <1>0, HoldersLive, ServiceTypes DEF Holding, TicketsOf, Tickets
  <2> QED BY <2>1, <2>2 DEF OwnerInv, RequestsPlaced
<1>3. \A t \in Tickets :
        t \in Made <=> \E i \in Index : slots[i].ticket = t /\ slots[i].proof
  BY DEF Made, TicketsOf
<1> QED BY <1>1, <1>2, <1>3
        DEF OwnedOnce, RequestsDestroyedOnce, ProofsHandedOverOnce, Keeps, OwnerInv, ProofsPlaced

-----------------------------------------------------------------------------
(* The counters.                                                           *)
LEMMA CountStep == ServiceInv /\ CountsConserved /\ ServiceInv' /\ [Next]_vars => CountsConserved'
<1> SUFFICES ASSUME ServiceInv, CountsConserved, ServiceInv', [Next]_vars PROVE CountsConserved'
  OBVIOUS
<1>0. /\ started \in Nat /\ completed \in Nat /\ failed \in Nat /\ canceled \in Nat
      /\ queueDepth \in Nat /\ nextTicket \in Nat
      /\ started = completed + failed + (IF executing = NoIndex THEN 0 ELSE 1)
      /\ Serving => nextTicket - 1 = started + canceled + queueDepth
  BY ServiceTypes DEF ServiceInv, TypeOK, CountsConserved
<1>1. queueDepth' = Cardinality(Queued)'
  BY DEF ServiceInv, DepthExact
<1>2. ASSUME NEW device, NEW retained, NEW now, Submit(device, retained, now)
      PROVE  CountsConserved'
  <2>1. Serving
    BY <1>2 DEF Submit, Admissible, Serving
  <2> QED BY <1>0, <1>1, <1>2, <2>1 DEF Submit, tally, CountsConserved
<1>3. ASSUME NEW now \in Time, Stationary(now) PROVE CountsConserved'
  <2>0. Serving
    BY <1>3, StationaryInPlace DEF InPlace
  <2>1. ASSUME NEW i \in Index, Start(i, now) PROVE CountsConserved'
    <3>1. executing = NoIndex /\ executing' # NoIndex
      BY <2>1 DEF Start, OwnerFree, Index, NoIndex
    <3> QED BY <1>0, <1>1, <2>0, <2>1, <3>1 DEF Start, CountsConserved
  <2>2. ASSUME NEW i \in Index, StartRefused(i, now) PROVE CountsConserved'
    BY <1>0, <1>1, <2>0, <2>2 DEF StartRefused, tally, CountsConserved
  <2>3. ASSUME NEW i \in Index, AbortQueued(i, now) PROVE CountsConserved'
    BY <1>0, <1>1, <2>0, <2>3 DEF AbortQueued, CountsConserved
  <2>4. CASE Complete(now)
    BY <1>0, <1>1, <2>0, <2>4 DEF Complete, Settle, CountsConserved
  <2>5. CASE FailRequest(now)
    BY <1>0, <1>1, <2>0, <2>5 DEF FailRequest, Settle, CountsConserved
  <2>6. ASSUME NEW made \in BOOLEAN, NEW accounted \in BOOLEAN, Poison(made, accounted, now)
        PROVE  CountsConserved'
    <3>1. /\ executing # NoIndex /\ executing' = NoIndex /\ nextTicket' = nextTicket
          /\ started' = started /\ completed' = completed /\ failed' = failed + 1
          /\ canceled' = canceled + Cardinality(Queued)
          /\ queueDepth' = queueDepth - Cardinality(Queued)
      BY <2>6 DEF Poison, CanceledByPoison
    <3>2. Cardinality(Queued) \in Nat
      BY QueuedFinite
    <3> QED BY <1>0, <1>1, <2>0, <3>1, <3>2 DEF CountsConserved
  <2> QED BY <1>3, <2>1, <2>2, <2>3, <2>4, <2>5, <2>6 DEF Stationary, Settles
<1>4. CASE PublishNext
  BY <1>0, <1>1, <1>4 DEF PublishNext, tally, Serving, CountsConserved
<1>5. CASE Close \/ AbortAll \/ Deinit
  <2>1. ~Serving' /\ executing' = executing /\ UNCHANGED tally
    BY <1>5 DEF Close, AbortAll, Deinit, Serving
  <2> QED BY <1>0, <1>1, <2>1 DEF tally, CountsConserved
<1>6. CASE CloseFails \/ Reset
  <2>1. Serving
    BY <1>6 DEF CloseFails, Reset, CanReset, Serving
  <2> QED BY <1>0, <1>1, <1>6, <2>1 DEF CloseFails, Reset, tally, CountsConserved
<1>7. CASE UNCHANGED vars
  BY <1>0, <1>1, <1>7 DEF vars, tally, Serving, CountsConserved
<1> QED BY <1>2, <1>3, <1>4, <1>5, <1>6, <1>7, NextCases DEF ServiceInv

(* Every admission is waiting, started or canceled, and every start has    *)
(* ended in one way or is running: no exit of pumpOne and no cancellation  *)
(* forgets to count or counts twice (request_service.zig 253-392,          *)
(* 643-691).                                                               *)
THEOREM CountsAgree == Spec => []CountsConserved
<1>1. Init => CountsConserved
  <2> SUFFICES ASSUME Init PROVE CountsConserved
    OBVIOUS
  <2>1. Queued = {}
    BY DEF Init, Queued, Vacant
  <2> QED BY <2>1, FS_EmptySet DEF Init, CountsConserved, Serving
<1>2. ServiceInv /\ CountsConserved /\ ServiceInv' /\ [Next]_vars => CountsConserved'
  BY CountStep
<1> QED BY <1>1, <1>2, Invariance, PTL DEF Spec

-----------------------------------------------------------------------------
(* The sum of retained bytes. InputOf counts a pair for every byte, so the *)
(* laws of a sum over a finite set follow from those of cardinalities.     *)
Bytes(q, S) == UNION {{i} \X (1 .. q[i].retained) : i \in S}

LEMMA UpTo == ASSUME NEW n \in Nat PROVE IsFiniteSet(1 .. n) /\ Cardinality(1 .. n) = n
<1>1. IsFiniteSet(1 .. n) /\ Cardinality(1 .. n) = IF 1 > n THEN 0 ELSE n - 1 + 1
  BY FS_Interval
<1> QED BY <1>1

LEMMA BytesFinite ==
  ASSUME NEW q, NEW S \in SUBSET Index, \A i \in S : q[i].retained \in Nat
  PROVE  IsFiniteSet(Bytes(q, S)) /\ Cardinality(Bytes(q, S)) \in Nat
<1> DEFINE f == [i \in S |-> {i} \X (1 .. q[i].retained)]
           T == {f[i] : i \in S}
<1>1. IsFiniteSet(S)
  BY IndexFinite
<1>2. f \in Surjection(S, T)
  BY DEF Surjection
<1>3. IsFiniteSet(T)
  <2> HIDE DEF f, T
  <2> QED BY <1>1, <1>2, FS_Surjection
<1>4. ASSUME NEW i \in S PROVE IsFiniteSet(f[i])
  <2>1. IsFiniteSet({i}) /\ IsFiniteSet(1 .. q[i].retained)
    BY UpTo, FS_Singleton
  <2>2. IsFiniteSet({i} \X (1 .. q[i].retained))
    BY <2>1, FS_Product
  <2> QED BY <2>2
<1>5. Bytes(q, S) = UNION T
  BY DEF Bytes
<1>6. IsFiniteSet(UNION T)
  <2> HIDE DEF f
  <2>1. \A t \in T : IsFiniteSet(t)
    BY <1>4
  <2> HIDE DEF T
  <2> QED BY <1>3, <2>1, FS_UNION
<1> QED BY <1>5, <1>6, FS_CardinalityType

LEMMA BytesOfNone == ASSUME NEW q PROVE Cardinality(Bytes(q, {})) = 0
<1>1. Bytes(q, {}) = {}
  BY DEF Bytes
<1> QED BY <1>1, FS_EmptySet

LEMMA BytesOfOne ==
  ASSUME NEW q, NEW i, q[i].retained \in Nat
  PROVE  Cardinality(Bytes(q, {i})) = q[i].retained
<1>1. Bytes(q, {i}) = {i} \X (1 .. q[i].retained)
  BY DEF Bytes
<1>2. IsFiniteSet({i}) /\ Cardinality({i}) = 1
  BY FS_Singleton
<1>3. IsFiniteSet(1 .. q[i].retained) /\ Cardinality(1 .. q[i].retained) = q[i].retained
  BY UpTo
<1>4. Cardinality({i} \X (1 .. q[i].retained)) = 1 * q[i].retained
  BY <1>2, <1>3, FS_Product
<1>5. Cardinality({i} \X (1 .. q[i].retained)) = q[i].retained
  BY <1>4
<1> QED BY <1>1, <1>5

LEMMA BytesSplit ==
  ASSUME NEW q, NEW S \in SUBSET Index, NEW T \in SUBSET S, \A i \in S : q[i].retained \in Nat
  PROVE  Cardinality(Bytes(q, S)) = Cardinality(Bytes(q, T)) + Cardinality(Bytes(q, S \ T))
<1>1. Bytes(q, S) = Bytes(q, T) \cup Bytes(q, S \ T)
  BY DEF Bytes
<1>2. Bytes(q, T) \cap Bytes(q, S \ T) = {}
  BY DEF Bytes
<1>3. IsFiniteSet(Bytes(q, T)) /\ IsFiniteSet(Bytes(q, S \ T))
  <2>1. T \in SUBSET Index /\ \A i \in T : q[i].retained \in Nat
    OBVIOUS
  <2>2. (S \ T) \in SUBSET Index /\ \A i \in S \ T : q[i].retained \in Nat
    OBVIOUS
  <2> QED BY <2>1, <2>2, BytesFinite
<1>4. /\ Cardinality(Bytes(q, T)) \in Nat /\ Cardinality(Bytes(q, S \ T)) \in Nat
      /\ Cardinality({}) = 0
  BY <1>3, FS_CardinalityType, FS_EmptySet
<1>5. Cardinality(Bytes(q, T) \cup Bytes(q, S \ T)) =
        Cardinality(Bytes(q, T)) + Cardinality(Bytes(q, S \ T)) - Cardinality({})
  BY <1>2, <1>3, FS_Union
<1> QED BY <1>1, <1>4, <1>5

LEMMA BytesSame ==
  ASSUME NEW p, NEW q, NEW S, \A i \in S : p[i].retained = q[i].retained
  PROVE  Bytes(p, S) = Bytes(q, S)
  BY DEF Bytes

Holders == {i \in Index : slots[i].request}

(* The part of TelemetryConserved about bytes.                             *)
RetainedExact ==
  /\ queuedBytes = InputOf(Holders)
  /\ queuedBytes <= MaxQueuedInput

LEMMA InputIsBytes == \A S : InputOf(S) = Cardinality(Bytes(slots, S))
  BY DEF InputOf, Bytes

LEMMA RetainedTypes == ServiceInv => \A i \in Index : slots[i].retained \in Nat
<1>1. ASSUME NEW s \in Slot PROVE s.retained \in Nat
  <2>1. s.retained \in InputSizes \union {0}
    BY DEF Slot
  <2>2. InputSizes \union {0} \subseteq Nat
    BY LimitsAssumption
  <2> QED BY <2>1, <2>2
<1> QED BY <1>1, ServiceTypes

(* Requests that leave the service take their bytes out of the sum: the    *)
(* bytes of T are part of it, and the rest is what the others retain.      *)
LEMMA Releasing ==
  ASSUME ServiceInv, RetainedExact, NEW T \in SUBSET Holders
  PROVE  /\ InputOf(T) \in Nat /\ queuedBytes \in Nat
         /\ InputOf(T) <= queuedBytes
         /\ InputOf(Holders \ T) = queuedBytes - InputOf(T)
<1>0. Holders \in SUBSET Index /\ T \in SUBSET Index /\ (Holders \ T) \in SUBSET Index
  BY DEF Holders
<1>1. \A i \in Index : slots[i].retained \in Nat
  BY RetainedTypes
<1>2. Cardinality(Bytes(slots, T)) \in Nat
  BY <1>0, <1>1, BytesFinite
<1>3. Cardinality(Bytes(slots, Holders \ T)) \in Nat
  BY <1>0, <1>1, BytesFinite
<1>4. Cardinality(Bytes(slots, Holders)) =
        Cardinality(Bytes(slots, T)) + Cardinality(Bytes(slots, Holders \ T))
  BY <1>0, <1>1, BytesSplit
<1> QED BY <1>2, <1>3, <1>4, InputIsBytes DEF RetainedExact

(* A step that takes the requests of T out of the service, and their bytes *)
(* off the counter, leaves the counter exact.                              *)
LEMMA Released ==
  ASSUME ServiceInv, RetainedExact, NEW T \in SUBSET Holders,
         Holders' = Holders \ T,
         \A i \in Holders \ T : slots'[i].retained = slots[i].retained,
         queuedBytes' = queuedBytes - InputOf(T)
  PROVE  RetainedExact'
<1>1. /\ InputOf(T) \in Nat /\ queuedBytes \in Nat
      /\ InputOf(T) <= queuedBytes
      /\ InputOf(Holders \ T) = queuedBytes - InputOf(T)
  BY Releasing
<1>2. Bytes(slots', Holders \ T) = Bytes(slots, Holders \ T)
  BY BytesSame
<1>3. InputOf(Holders)' = Cardinality(Bytes(slots', Holders'))
  BY DEF InputOf, Bytes
<1>4. InputOf(Holders)' = queuedBytes'
  BY <1>1, <1>2, <1>3, InputIsBytes
<1>5. queuedBytes' <= MaxQueuedInput
  BY <1>1, LimitsAssumption DEF RetainedExact
<1> QED BY <1>4, <1>5 DEF RetainedExact

(* The same when one request leaves, or none.                              *)
LEMMA OneLeaves ==
  ASSUME ServiceInv, RetainedExact, NEW i \in Holders,
         Holders' = Holders \ {i},
         \A j \in Holders \ {i} : slots'[j].retained = slots[j].retained,
         queuedBytes' = queuedBytes - slots[i].retained
  PROVE  RetainedExact'
<1>1. slots[i].retained \in Nat
  BY RetainedTypes DEF Holders
<1>2. InputOf({i}) = slots[i].retained
  BY <1>1, BytesOfOne, InputIsBytes
<1> QED BY <1>2, Released

LEMMA NoneLeaves ==
  ASSUME RetainedExact, Holders' = Holders,
         \A j \in Holders : slots'[j].retained = slots[j].retained,
         queuedBytes' = queuedBytes
  PROVE  RetainedExact'
<1>1. Bytes(slots', Holders) = Bytes(slots, Holders)
  BY BytesSame
<1>2. InputOf(Holders)' = Cardinality(Bytes(slots', Holders'))
  BY DEF InputOf, Bytes
<1> QED BY <1>1, <1>2, InputIsBytes DEF RetainedExact

(* submit admits only what keeps the sum within the limit, and takes a     *)
(* slot that held no request.                                              *)
LEMMA SubmitBytes ==
  ASSUME ServiceInv, RecordInv, RetainedExact,
         NEW device \in DeviceSizes, NEW retained \in InputSizes, NEW now,
         Submit(device, retained, now)
  PROVE  RetainedExact'
<1>1. /\ tail \in Index /\ slots[tail].state = "vacant"
      /\ \A i \in Index : i # tail => slots'[i] = slots[i]
  BY SubmitSlot
<1>2. slots'[tail].request = TRUE /\ slots'[tail].retained = retained
  BY <1>1 DEF Submit, NextSlot, ServiceInv, TypeOK
<1>3. tail \notin Holders
  BY <1>1 DEF Holders, RecordInv, Keeps
<1>4. Holders' = Holders \cup {tail}
  BY <1>1, <1>2 DEF Holders
<1>5. retained \in Nat
  BY LimitsAssumption
<1>6. \A i \in Holders' : slots'[i].retained \in Nat
  BY <1>1, <1>2, <1>4, <1>5, RetainedTypes DEF Holders
<1>7. Holders' \in SUBSET Index /\ {tail} \in SUBSET Holders' /\ Holders' \ {tail} = Holders
  BY <1>1, <1>3, <1>4 DEF Holders
<1>8. Cardinality(Bytes(slots', Holders')) =
        Cardinality(Bytes(slots', {tail})) + Cardinality(Bytes(slots', Holders' \ {tail}))
  BY <1>6, <1>7, BytesSplit
<1>9. Cardinality(Bytes(slots', {tail})) = retained
  BY <1>2, <1>5, BytesOfOne
<1>10. Bytes(slots', Holders) = Bytes(slots, Holders)
  BY <1>1, <1>3, BytesSame DEF Holders
<1>11. InputOf(Holders)' = Cardinality(Bytes(slots', Holders'))
  BY DEF InputOf, Bytes
<1>12. queuedBytes \in Nat
  BY Releasing
<1>13. InputOf(Holders)' = retained + queuedBytes
  BY <1>7, <1>8, <1>9, <1>10, <1>11, InputIsBytes DEF RetainedExact
<1>14. queuedBytes' = queuedBytes + retained /\ queuedBytes + retained <= MaxQueuedInput
  BY DEF Submit, Admissible
<1> QED BY <1>5, <1>12, <1>13, <1>14 DEF RetainedExact

LEMMA RetainedStep ==
  ServiceInv /\ RecordInv /\ RetainedExact /\ RecordInv' /\ [Next]_vars => RetainedExact'
<1> SUFFICES ASSUME ServiceInv, RecordInv, RetainedExact, RecordInv', [Next]_vars
             PROVE  RetainedExact'
  OBVIOUS
<1>0. slots \in [Index -> Slot]
      /\ \A i \in Index : slots[i].request <=> slots[i].state \in {"queued", "running"}
  BY ServiceTypes DEF RecordInv, Keeps
<1>1. ASSUME NEW now \in Time, NEW i \in Index, Start(i, now) \/ StartRefused(i, now)
      PROVE  RetainedExact'
  <2>1. /\ slots'[i].request = slots[i].request /\ slots'[i].retained = slots[i].retained
        /\ \A j \in Index : j # i => slots'[j] = slots[j]
        /\ queuedBytes' = queuedBytes
    BY <1>0, <1>1 DEF Start, StartRefused, Slot
  <2>2. Holders' = Holders /\ \A j \in Holders : slots'[j].retained = slots[j].retained
    BY <2>1 DEF Holders
  <2> QED BY <2>1, <2>2, NoneLeaves
<1>2. ASSUME NEW now \in Time, NEW i \in Index, AbortQueued(i, now) PROVE RetainedExact'
  <2>1. /\ slots[i].state = "queued" /\ slots'[i].request = FALSE
        /\ \A j \in Index : j # i => slots'[j] = slots[j]
        /\ queuedBytes' = queuedBytes - slots[i].retained
    BY <1>0, <1>2 DEF AbortQueued, Queued, Canceled, Slot
  <2>2. i \in Holders /\ Holders' = Holders \ {i}
        /\ \A j \in Holders \ {i} : slots'[j].retained = slots[j].retained
    BY <1>0, <2>1 DEF Holders
  <2> QED BY <2>1, <2>2, OneLeaves
<1>3. ASSUME NEW now \in Time, Complete(now) \/ FailRequest(now) PROVE RetainedExact'
  <2>1. Settles(now)
    BY <1>3 DEF Settles
  <2>2. PICK i \in Index : i = executing
    BY <2>1, SettlesSlots
  <2>3. slots[i].state = "running" /\ slots'[i].request = FALSE
    BY <2>1, <2>2, SettlesSlots
  <2>4. /\ \A j \in Index : j # i => slots'[j] = slots[j]
        /\ queuedBytes' = queuedBytes - slots[i].retained
    BY <1>0, <1>3, <2>2 DEF Complete, FailRequest, Release
  <2>5. i \in Holders /\ Holders' = Holders \ {i}
        /\ \A j \in Holders \ {i} : slots'[j].retained = slots[j].retained
    BY <1>0, <2>3, <2>4 DEF Holders
  <2> QED BY <2>4, <2>5, OneLeaves
<1>4. ASSUME NEW now \in Time, NEW made \in BOOLEAN, NEW accounted \in BOOLEAN,
             Poison(made, accounted, now)
      PROVE  RetainedExact'
  <2>1. Settles(now) /\ state' = "poisoned" /\ executing # NoIndex
    BY <1>4 DEF Settles, Poison, AbortRuntime
  <2>2. PICK i \in Index : i = executing
    BY <2>1, SettlesSlots
  <2>3. slots[i].state = "running" /\ slots'[i].request = FALSE
    BY <2>1, <2>2, SettlesSlots
  <2>4. Holders = {i} \cup Queued /\ i \notin Queued
    BY <1>0, <2>1, <2>2, <2>3, ExecutingSlot DEF Holders, Queued
  <2>5. \A j \in Index : j # i => j \notin Queued \/ slots'[j] = Canceled(slots[j], now)
    BY <2>1, <2>2, SettlesSlots
  <2>6. \A j \in Index : j # i => slots'[j] = slots[j] \/ slots'[j] = Canceled(slots[j], now)
    BY <2>1, <2>2, SettlesSlots
  <2>7. Holders' = {}
    <3>0. \A j \in Index : Canceled(slots[j], now).request = FALSE
      BY <1>0 DEF Canceled, Slot
    <3>1. \A j \in Queued : slots'[j].request = FALSE
      BY <2>4, <2>5, <3>0 DEF Queued
    <3>2. \A j \in Index : j \notin Holders => slots'[j].request = FALSE
      BY <2>3, <2>6, <3>0, <1>0 DEF Holders, Slot
    <3> QED BY <2>3, <2>4, <3>1, <3>2 DEF Holders
  <2>8. Holders \ Holders = {} /\ {i} \in SUBSET Holders /\ Holders \ {i} = Queued
    BY <2>4
  <2>9. /\ InputOf({i}) \in Nat /\ queuedBytes \in Nat
        /\ InputOf({i}) <= queuedBytes
        /\ InputOf(Queued) = queuedBytes - InputOf({i})
    BY <2>8, Releasing
  <2>10. InputOf({i}) = slots[i].retained
    BY BytesOfOne, InputIsBytes, RetainedTypes
  <2>11. queuedBytes' = (IF slots[i].retained <= queuedBytes
                         THEN queuedBytes - slots[i].retained ELSE 0) - InputOf(Queued)
    BY <1>4, <2>2 DEF Poison, CanceledByPoison
  <2>12. queuedBytes' = queuedBytes - InputOf(Holders) /\ InputOf(Holders) = queuedBytes
    BY <2>9, <2>10, <2>11 DEF RetainedExact
  <2> QED BY <2>7, <2>12, Released
<1>5. CASE PublishNext
  <2>1. /\ head \in Index /\ slots[head].state \in Finished
        /\ slots' = [slots EXCEPT ![head] = Vacant] /\ queuedBytes' = queuedBytes
    BY <1>5 DEF PublishNext, ServiceInv, TypeOK
  <2>2. ~slots[head].request /\ ~slots'[head].request
        /\ \A i \in Index : i # head => slots'[i] = slots[i]
    BY <1>0, <2>1 DEF Finished, Vacant
  <2>3. Holders' = Holders /\ \A j \in Holders : slots'[j].retained = slots[j].retained
    BY <2>1, <2>2 DEF Holders
  <2> QED BY <2>1, <2>3, NoneLeaves
<1>6. CASE Close \/ CloseFails \/ Reset \/ UNCHANGED vars
  <2>1. slots' = slots /\ queuedBytes' = queuedBytes
    BY <1>6 DEF Close, CloseFails, Reset, vars
  <2> QED BY <2>1, NoneLeaves DEF Holders
<1>7. CASE AbortAll \/ Deinit
  <2>1. slots' = [i \in Index |-> Vacant] /\ queuedBytes' = 0
    BY <1>7 DEF AbortAll, Deinit, DestroySlots
  <2>2. Holders' = {}
    BY <2>1 DEF Holders, Vacant
  <2>3. InputOf(Holders)' = Cardinality(Bytes(slots', Holders'))
    BY DEF InputOf, Bytes
  <2>4. InputOf(Holders)' = 0
    BY <2>2, <2>3, BytesOfNone
  <2> QED BY <2>1, <2>4, LimitsAssumption DEF RetainedExact
<1>8. ASSUME NEW now \in Time, Stationary(now) PROVE RetainedExact'
  BY <1>1, <1>2, <1>3, <1>4, <1>8 DEF Stationary, Settles
<1> QED BY <1>5, <1>6, <1>7, <1>8, SubmitBytes, NextCases DEF ServiceInv

(* queued_input_bytes is the sum over the requests the service still holds *)
(* and never over its limit, and the counts agree: no exit of pumpOne, no  *)
(* cancellation and no poisoning leaks a byte that would refuse admissions *)
(* later (request_service.zig 178-192, 600-627, 671-691).                  *)
THEOREM BytesConserved == Spec => []TelemetryConserved
<1>1. Init => RetainedExact
  <2> SUFFICES ASSUME Init PROVE RetainedExact
    OBVIOUS
  <2>1. Holders = {} /\ queuedBytes = 0
    BY DEF Init, Holders, Vacant
  <2> QED BY <2>1, BytesOfNone, InputIsBytes, LimitsAssumption DEF RetainedExact
<1>2. RetainedExact /\ CountsConserved => TelemetryConserved
  BY DEF RetainedExact, Holders, TelemetryConserved
<1>3. ServiceInv /\ RecordInv /\ RetainedExact /\ RecordInv' /\ [Next]_vars => RetainedExact'
  BY RetainedStep
<1> QED BY <1>1, <1>2, <1>3, RecordInvariance, CountsAgree, PTL DEF Spec

(* What a request retains is part of the counter as long as it is in the   *)
(* service: the assertion in cancelSlotWithWait holds, the accounting      *)
(* never refuses for want of bytes, and the subtraction that stops at zero *)
(* never does (request_service.zig 594-598, 619-628, 683-686).             *)
THEOREM NoUnderflow ==
  Spec => [](\A i \in Index : slots[i].request => slots[i].retained <= queuedBytes)
<1>1. ServiceInv /\ RetainedExact =>
        \A i \in Index : slots[i].request => slots[i].retained <= queuedBytes
  <2> SUFFICES ASSUME ServiceInv, RetainedExact, NEW i \in Index, slots[i].request
               PROVE  slots[i].retained <= queuedBytes
    OBVIOUS
  <2>1. InputOf({i}) <= queuedBytes
    BY Releasing DEF Holders
  <2>2. InputOf({i}) = slots[i].retained
    BY BytesOfOne, InputIsBytes, RetainedTypes
  <2> QED BY <2>1, <2>2
<1>2. TelemetryConserved => RetainedExact
  BY DEF RetainedExact, Holders, TelemetryConserved
<1> QED BY <1>1, <1>2, BytesConserved, Invariance, PTL

-----------------------------------------------------------------------------
(* Why every ticket gets its answer: what Answered says, but for fairness. *)

(* With the owner between two calls, the oldest result can be published or *)
(* the oldest request started.                                             *)
HeadCanMove ==
  count # 0 /\ OwnerFree =>
    \/ slots[head].state \in Finished
    \/ state = "ready" /\ activeTicket = NoTicket /\ OldestQueued(head)

(* The owner is never left with a ticket that neither pumpOne nor          *)
(* publishNext can serve: a head that has not finished waits in a ready    *)
(* service with nothing running, and is what pumpOne takes next. Neither a *)
(* cancellation behind it nor a poisoning can change that                  *)
(* (request_service.zig 253-277, 394-422, 693-700).                        *)
THEOREM HeadNeverStuck == Spec => []HeadCanMove
<1>1. ServiceInv => HeadCanMove
  <2> SUFFICES ASSUME ServiceInv, count # 0, OwnerFree, slots[head].state \notin Finished
               PROVE  state = "ready" /\ activeTicket = NoTicket /\ OldestQueued(head)
    BY DEF HeadCanMove
  <2>1. head \in Index /\ count \in 1 .. MaxPending
    BY LimitsAssumption DEF ServiceInv, TypeOK
  <2>2. Offset(head) = 0
    BY <2>1, LimitsAssumption DEF Offset, Index
  <2>3. slots[head].state # "vacant" /\ Serving
    BY <2>1, <2>2, LiveSlots
  <2>4. slots[head].state # "running"
    BY <2>1 DEF ServiceInv, SingleFlight, OwnerFree, NoIndex
  <2>5. head \in Queued
    BY <2>1, <2>3, <2>4 DEF ServiceInv, TypeOK, Slot, SlotState, Finished, Queued
  <2>6. state = "ready" /\ activeTicket = NoTicket
    BY <2>1, <2>3, <2>5 DEF ServiceInv, PoisonDrains, SingleFlight, OwnerFree, Serving, Queued,
                            Finished
  <2>7. Wrap(head + 0) = head
    BY <2>1, WrapBelow, LimitsAssumption DEF Index
  <2>8. OldestQueued(head)
    BY <2>1, <2>5, <2>7 DEF OldestQueued
  <2> QED BY <2>6, <2>8
<1> QED BY <1>1, Invariance, PTL

=============================================================================
