---------------------------- MODULE ArenaEpochsProofs ---------------------------
(***************************************************************************)
(* Proofs about ArenaEpochs, for any lists of buffers, numbers of runs and *)
(* writes. What a run does to the plan's variables is a behaviour of       *)
(* PlanSpec, so the theorems of ArenaPlacementProofs carry over, and two   *)
(* live buffers never overlap. EpochInv adds where each buffer stands at   *)
(* each tick (OnSchedule) and what memory and file hold for it (Values). A *)
(* measure shows that each step brings a run nearer to its end.            *)
(***************************************************************************)
EXTENDS ArenaEpochs, ArenaPlacementProofs, WellFoundedInduction

Ticks(i) == Occupied(logical[i])
Going == stage \in {"begin", "end"}
Waiting(i) == stage = "begin" /\ i \in todo

(* Where buffer i stands: live exactly while its range lasts, spilled      *)
(* between two ranges if that is how it is kept, not written before its    *)
(* first use.                                                              *)
Stands(i) ==
  /\ state[i] = "live" => tick \in Ticks(i) /\ ~Waiting(i)
  /\ tick \in Ticks(i) /\ ~Waiting(i) =>
       state[i] = IF stage = "end" /\ i \in Spills(tick) \ todo
                    THEN "spilled" ELSE "live"
  /\ Kind(i) = "spill" /\ FirstUse(i) < tick /\ tick <= Last(logical[i])
       /\ (tick \notin Ticks(i) \/ Waiting(i)) => state[i] = "spilled"
  /\ tick < FirstUse(i) \/ (tick = FirstUse(i) /\ stage = "begin") => version[i] = 0

OnSchedule ==
  Going => /\ todo \subseteq IF stage = "begin" THEN Enters(tick) ELSE Spills(tick)
           /\ \A i \in Bound : Stands(i)

(* What memory and file hold of buffer i.                                  *)
Keeps(i) ==
  /\ state[i] = "live" /\ version[i] > 0 => held[i] = version[i]
  /\ state[i] = "spilled" =>
       materialized[i] /\ (version[i] > 0 => saved[i] \in {version[i], Torn})
  /\ lastTick[i] <= tick
  /\ lastTick[i] = tick /\ Waiting(i) => held[i] = version[i]

Values == Going => \A i \in Bound : Keeps(i)

Planned == /\ runs > 0 => planner = "metal" /\ result = "planned"
           /\ runs = 0 => stage = "off" /\ todo = {} /\ saved = <<>>

EpochInv ==
  /\ TypeOK
  /\ Planned
  /\ OnSchedule
  /\ Values
  /\ stage # "refused"

--------------------------------------------------------------------------------
(* Ranges and ticks.                                                       *)

LEMMA NatMin ==
  ASSUME NEW T \in SUBSET Nat, T # {}
  PROVE  \E x \in T : \A y \in T : x <= y
<1> DEFINE R == OpToRel(<, Nat)
<1>1. IsWellFoundedOn(R, Nat)
  BY NatLessThanWellFounded
<1>2. \A x, y \in Nat : <<y, x>> \in R <=> y < x
  BY DEF OpToRel
<1> HIDE DEF R
<1>3. PICK x \in T : \A y \in T : ~(<<y, x>> \in R)
  BY <1>1, WFMin
<1>4. ASSUME NEW y \in T
      PROVE  x <= y
  <2>1. ~(<<y, x>> \in R)
    BY <1>3
  <2>2. ~(y < x)
    BY <2>1, <1>2
  <2> QED BY <2>2
<1> QED BY <1>4

(* The ticks from the first use to the last; ranges do not meet.           *)
LEMMA SegmentFacts ==
  ASSUME NEW b \in LogicalBuffer, WellFormed(b)
  PROVE  /\ First(b) \in 0 .. MaxTick /\ Last(b) \in 0 .. MaxTick
         /\ \A s \in Segments(b) :
              /\ s.first \in 0 .. MaxTick /\ s.last \in 0 .. MaxTick
              /\ First(b) <= s.first /\ s.first <= s.last /\ s.last <= Last(b)
         /\ \E s \in Segments(b) : s.first = First(b)
         /\ \E s \in Segments(b) : s.last = Last(b)
         /\ \A s, u \in Segments(b) : s # u => s.last < u.first \/ u.last < s.first
<1>1. /\ MaxTick \in Nat /\ b.ranges # {} /\ b.ranges \subseteq LiveRange
      /\ \A r \in b.ranges : /\ r.first \in 0 .. MaxTick /\ r.last \in 0 .. MaxTick
                             /\ r.first <= r.last
      /\ \A r, u \in b.ranges : r # u => r.last < u.first \/ u.last < r.first
  BY PlacementAssumption DEF LogicalBuffer, LiveRange, WellFormed
<1>2. /\ First(b) \in 0 .. MaxTick
      /\ \E r \in b.ranges : r.first = First(b)
      /\ \A r \in b.ranges : First(b) <= r.first
  <2> DEFINE T == {r.first : r \in b.ranges}
  <2>1. T \in SUBSET Nat /\ T # {}
    BY <1>1
  <2>2. PICK x \in T : \A y \in T : x <= y
    BY <2>1, NatMin
  <2>3. /\ x \in 0 .. MaxTick
        /\ \E r \in b.ranges : r.first = x
        /\ \A r \in b.ranges : x <= r.first
    BY <2>2, <1>1
  <2> QED BY <2>3 DEF First
<1>3. /\ Last(b) \in 0 .. MaxTick
      /\ \E r \in b.ranges : r.last = Last(b)
      /\ \A r \in b.ranges : r.last <= Last(b)
  <2> DEFINE T == {MaxTick - r.last : r \in b.ranges}
  <2>1. T \in SUBSET Nat /\ T # {}
    BY <1>1
  <2>2. PICK x \in T : \A y \in T : x <= y
    BY <2>1, NatMin
  <2>3. PICK r \in b.ranges : x = MaxTick - r.last
    BY <2>2
  <2>4. ASSUME NEW u \in b.ranges
        PROVE  u.last <= r.last
    <3>1. MaxTick - u.last \in T
      OBVIOUS
    <3>2. x <= MaxTick - u.last
      BY <3>1, <2>2
    <3> QED BY <3>2, <2>3, <1>1
  <2> QED BY <2>3, <2>4, <1>1 DEF Last
<1>4. CASE Materialization(b) = "resident"
  <2>1. Segments(b) = {[first |-> First(b), last |-> Last(b)]}
    BY <1>4 DEF Segments
  <2>2. First(b) <= Last(b)
    BY <1>1, <1>2, <1>3
  <2> QED BY <2>1, <2>2, <1>2, <1>3
<1>5. CASE Materialization(b) # "resident"
  <2>1. Segments(b) = b.ranges
    BY <1>5 DEF Segments
  <2> QED BY <2>1, <1>1, <1>2, <1>3
<1> QED BY <1>4, <1>5

(* How a buffer crosses from tick t to the next.                           *)
LEMMA TickFacts ==
  ASSUME NEW b \in LogicalBuffer, WellFormed(b), NEW t \in Nat
  PROVE  LET starts(u) == \E r \in Segments(b) : r.first = u
             ends(u) == \E r \in Segments(b) : r.last = u
         IN  /\ starts(t) \/ ends(t) => t \in Occupied(b)
             /\ t \in Occupied(b) => First(b) <= t /\ t <= Last(b)
             /\ First(b) \in Occupied(b) /\ Last(b) \in Occupied(b)
             /\ t \in Occupied(b) /\ ~ends(t) => t + 1 \in Occupied(b)
             /\ t + 1 \in Occupied(b) /\ ~starts(t + 1) => t \in Occupied(b) /\ ~ends(t)
             /\ t \in Occupied(b) /\ (t + 1 \notin Occupied(b) \/ starts(t + 1)) => ends(t)
             /\ 0 \in Occupied(b) => starts(0)
<1>1. \A u : u \in Occupied(b) <=> \E s \in Segments(b) : u \in s.first .. s.last
  BY SegmentFacts, PlacementAssumption DEF Occupied
<1>2. /\ MaxTick \in Nat
      /\ First(b) \in Nat /\ Last(b) \in Nat
      /\ \A s \in Segments(b) :
              /\ s.first \in Nat /\ s.last \in Nat
              /\ First(b) <= s.first /\ s.first <= s.last /\ s.last <= Last(b)
      /\ \E s \in Segments(b) : s.first = First(b)
      /\ \E s \in Segments(b) : s.last = Last(b)
      /\ \A s, u \in Segments(b) : s # u => s.last < u.first \/ u.last < s.first
  BY SegmentFacts, PlacementAssumption
<1> QED BY <1>1, <1>2

--------------------------------------------------------------------------------
(* The plan while it runs.                                                 *)

LEMMA Fixed ==
  ASSUME UNCHANGED planVars
  PROVE  /\ logical' = logical /\ offset' = offset
         /\ planner' = planner /\ result' = result
         /\ PlanTypeOK' <=> PlanTypeOK
         /\ Bound' = Bound
         /\ \A i : /\ Ticks(i)' = Ticks(i) /\ Kind(i)' = Kind(i)
                   /\ FirstUse(i)' = FirstUse(i)
                   /\ Last(logical[i])' = Last(logical[i])
         /\ \A t : Enters(t)' = Enters(t) /\ Spills(t)' = Spills(t)
<1>1. logical' = logical /\ offset' = offset /\ planner' = planner /\ result' = result
  BY DEF planVars, config
<1>2. PlanTypeOK' <=> PlanTypeOK
  BY DEF planVars, config, search, PlanTypeOK
<1> QED
  BY <1>1, <1>2 DEF Bound, Ticks, Kind, FirstUse, Enters, Spills, Leaves, Occupied, Segments,
                    Materialization, First, Last

LEMMA PlanFacts ==
  ASSUME EpochInv, PlacementInv, runs > 0
  PROVE  /\ \A i \in Bound : logical[i] \in LogicalBuffer /\ WellFormed(logical[i])
         /\ \A i, j \in Bound : i # j /\ Together(i, j) => ~Overlap(i, j)
         /\ tick \in Nat /\ MaxTick \in Nat /\ tick <= MaxTick
<1>1. result = "planned"
  BY DEF EpochInv, Planned
<1>2. DOMAIN offset \subseteq DOMAIN logical
      /\ \A i \in DOMAIN logical : logical[i] \in LogicalBuffer
  BY DEF PlacementInv, PlanTypeOK
<1>3. \A i \in DOMAIN logical : WellFormed(logical[i])
  BY <1>1 DEF PlacementInv, Admitted, Admissible
<1>4. tick \in Nat /\ MaxTick \in Nat /\ tick <= MaxTick
  BY PlacementAssumption DEF EpochInv, TypeOK
<1> QED BY <1>2, <1>3, <1>4 DEF PlacementInv, Separate, Bound

(* The ticks of a buffer, by the actions of the plan.                      *)
LEMMA Schedule ==
  ASSUME EpochInv, PlacementInv, runs > 0, NEW i \in Bound, NEW t \in Nat
  PROVE  /\ i \in Enters(t) \/ i \in Leaves(t) => t \in Ticks(i)
         /\ t \in Ticks(i) => FirstUse(i) <= t /\ t <= Last(logical[i])
         /\ FirstUse(i) \in Nat /\ Last(logical[i]) \in 0 .. MaxTick
         /\ t \in Ticks(i) /\ i \notin Leaves(t) => t + 1 \in Ticks(i)
         /\ t + 1 \in Ticks(i) /\ i \notin Enters(t + 1) => t \in Ticks(i) /\ i \notin Leaves(t)
         /\ t \in Ticks(i) /\ (t + 1 \notin Ticks(i) \/ i \in Enters(t + 1)) => i \in Leaves(t)
         /\ 0 \in Ticks(i) => i \in Enters(0)
         /\ FirstUse(i) \in Ticks(i)
<1>1. logical[i] \in LogicalBuffer /\ WellFormed(logical[i])
  BY PlanFacts
<1>2. FirstUse(i) \in 0 .. MaxTick /\ Last(logical[i]) \in 0 .. MaxTick
  BY <1>1, SegmentFacts DEF FirstUse
<1> DEFINE b == logical[i]
           starts(u) == \E r \in Segments(b) : r.first = u
           ends(u) == \E r \in Segments(b) : r.last = u
<1>3. /\ starts(t) \/ ends(t) => t \in Occupied(b)
      /\ t \in Occupied(b) => First(b) <= t /\ t <= Last(b)
      /\ First(b) \in Occupied(b)
      /\ t \in Occupied(b) /\ ~ends(t) => t + 1 \in Occupied(b)
      /\ t + 1 \in Occupied(b) /\ ~starts(t + 1) => t \in Occupied(b) /\ ~ends(t)
      /\ t \in Occupied(b) /\ (t + 1 \notin Occupied(b) \/ starts(t + 1)) => ends(t)
      /\ 0 \in Occupied(b) => starts(0)
  BY <1>1, TickFacts
<1>4. /\ starts(t) <=> i \in Enters(t)
      /\ starts(t + 1) <=> i \in Enters(t + 1)
      /\ starts(0) <=> i \in Enters(0)
  BY DEF Enters
<1>5. ends(t) <=> i \in Leaves(t)
  BY DEF Leaves
<1>6. /\ i \in Enters(t) \/ i \in Leaves(t) => t \in Occupied(b)
      /\ t \in Occupied(b) /\ i \notin Leaves(t) => t + 1 \in Occupied(b)
      /\ t + 1 \in Occupied(b) /\ i \notin Enters(t + 1) => t \in Occupied(b) /\ i \notin Leaves(t)
      /\ t \in Occupied(b) /\ (t + 1 \notin Occupied(b) \/ i \in Enters(t + 1)) => i \in Leaves(t)
      /\ 0 \in Occupied(b) => i \in Enters(0)
  BY <1>3, <1>4, <1>5
<1>7. MaxTick \in Nat
  BY PlacementAssumption
<1> QED BY <1>2, <1>3, <1>6, <1>7 DEF Ticks, FirstUse

(* Writing to buffers that are needed at this tick leaves the others that  *)
(* are needed at it alone.                                                 *)
LEMMA WriteApart ==
  ASSUME EpochInv, PlacementInv, runs > 0, NEW S \in SUBSET Bound, NEW val,
         \A i \in S : tick \in Ticks(i),
         NEW k \in Bound
  PROVE  /\ k \in S => Written(S, val)[k] = val[k]
         /\ k \notin S /\ tick \in Ticks(k) => Written(S, val)[k] = held[k]
<1>1. held \in [Bound -> Nat \union {Junk}]
  BY DEF EpochInv, TypeOK
<1>2. ASSUME NEW i \in S, k \notin S, tick \in Ticks(k)
      PROVE  ~Overlap(i, k)
  <2>1. Together(i, k)
    BY <1>2 DEF Together, Ticks
  <2> QED BY <2>1, <1>2, PlanFacts
<1> QED BY <1>1, <1>2 DEF Written

(* ... and holds numbers where the values are.                             *)
LEMMA WriteType ==
  ASSUME EpochInv, runs > 0, NEW S \in SUBSET Bound, NEW val,
         \A i \in S : val[i] \in Nat \union {Junk}
  PROVE  Written(S, val) \in [Bound -> Nat \union {Junk}]
<1>1. held \in [Bound -> Nat \union {Junk}]
  BY DEF EpochInv, TypeOK
<1> QED BY <1>1 DEF Written

LEMMA Begun ==
  ASSUME EpochInv, Going
  PROVE  /\ runs > 0 /\ runs \in Nat /\ tick \in 0 .. MaxTick
         /\ state \in [Bound -> {"absent", "live", "spilled"}]
         /\ version \in [Bound -> 0 .. MaxVersion]
         /\ held \in [Bound -> Nat \union {Junk}]
         /\ saved \in [Bound -> Nat \union {Junk, Torn}]
         /\ materialized \in [Bound -> BOOLEAN]
         /\ lastTick \in [Bound -> 0 .. MaxTick \union {-1}]
         /\ \A i \in Bound : version[i] \in Nat
  BY PlacementAssumption, EpochAssumption DEF EpochInv, TypeOK, Planned, Going

--------------------------------------------------------------------------------
(* begin(tick).                                                            *)

LEMMA IsClear ==
  ASSUME EpochInv, PlacementInv, NEW i \in todo, Entering(i)
  PROVE  Clear(i) /\ i \in Bound /\ tick \in Ticks(i) /\ Going /\ Waiting(i)
<1>1. stage = "begin" /\ Going /\ Waiting(i) /\ i \in Enters(tick) /\ i \in Bound /\ runs > 0 /\ tick \in Nat
  BY Begun, PlanFacts DEF Entering, Going, Waiting, EpochInv, OnSchedule, Enters
<1>2. tick \in Ticks(i)
  BY <1>1, Schedule
<1>3. ASSUME NEW j \in Bound, state[j] = "live"
      PROVE  ~Overlap(i, j)
  <2>1. tick \in Ticks(j) /\ j # i
    BY <1>1, <1>3 DEF EpochInv, OnSchedule, Stands
  <2>2. Together(i, j)
    BY <1>2, <2>1 DEF Together, Ticks
  <2> QED BY <1>1, <2>1, <2>2, PlanFacts
<1> QED BY <1>1, <1>2, <1>3 DEF Clear

(* A buffer that was waiting is live, and memory is written at most where  *)
(* buffers of this tick are.                                               *)
LEMMA ReviveKeeps ==
  ASSUME EpochInv, PlacementInv, UNCHANGED planVars,
         NEW i \in todo, Entering(i), Revive(i),
         held' \in [Bound -> Nat \union {Junk}],
         lastTick' \in [Bound -> 0 .. MaxTick \union {-1}],
         version[i] > 0 => held'[i] = version[i],
         \A k \in Bound \ {i} : tick \in Ticks(k) => held'[k] = held[k] \/ held'[k] = version[k],
         \A k \in Bound : lastTick'[k] # lastTick[k] => lastTick'[k] = tick,
         \A k \in Bound : lastTick'[k] = tick /\ lastTick[k] # tick => held'[k] = version[k]
  PROVE  EpochInv'
<1>1. /\ i \in Bound /\ tick \in Ticks(i) /\ Waiting(i) /\ Going /\ stage = "begin"
      /\ stage' = stage /\ tick' = tick /\ todo' = todo \ {i} /\ runs' = runs
      /\ version' = version /\ saved' = saved /\ materialized' = materialized
      /\ todo \subseteq Enters(tick)
  BY IsClear DEF Entering, Revive, file, EpochInv, OnSchedule
<1>2. /\ state \in [Bound -> {"absent", "live", "spilled"}]
      /\ state' = [state EXCEPT ![i] = "live"] /\ tick \in Nat /\ runs > 0
      /\ \A k \in Bound : version[k] \in Nat
      /\ tick \in 0 .. MaxTick
  BY <1>1, Begun, PlanFacts DEF Revive
<1>3. TypeOK'
  BY <1>1, <1>2, Begun, Fixed DEF EpochInv, TypeOK
<1>4. Planned'
  BY <1>1, <1>2, Fixed DEF EpochInv, Planned
<1>5. Going' /\ todo' \subseteq Enters(tick)'
  BY <1>1, Fixed DEF Going
<1>6. ASSUME NEW k \in Bound
      PROVE  Stands(k)' /\ Keeps(k)'
  <2>1. Stands(k) /\ Keeps(k)
    BY <1>1 DEF EpochInv, OnSchedule, Values
  <2>2. Waiting(k)' <=> Waiting(k) /\ k # i
    BY <1>1 DEF Waiting
  <2>3. k # i => state'[k] = state[k]
    BY <1>2
  <2>4. state'[i] = "live"
    BY <1>1, <1>2
  <2>5. Waiting(k) => tick \in Ticks(k)
    BY <1>1, <1>2, Schedule DEF Waiting
  <2>6. Stands(k)'
    BY <2>1, <2>2, <2>3, <2>4, <1>1, <1>2, Fixed DEF Stands
  <2>7. state'[k] = "live" => tick \in Ticks(k)
    BY <2>1, <2>3, <1>1 DEF Stands
  <2>8. Keeps(k)'
    BY <2>1, <2>2, <2>3, <2>4, <2>5, <2>7, <1>1, <1>2 DEF Keeps
  <2> QED BY <2>6, <2>8
<1> QED
  BY <1>1, <1>3, <1>4, <1>5, <1>6, Fixed DEF EpochInv, OnSchedule, Values

LEMMA ProduceKeeps ==
  ASSUME EpochInv, PlacementInv, UNCHANGED planVars, NEW i \in todo, Produce(i)
  PROVE  EpochInv'
<1>1. /\ Entering(i) /\ Revive(i) /\ UNCHANGED <<held, lastTick>>
      /\ i \in Bound /\ Going /\ stage = "begin" /\ tick = FirstUse(i)
  BY IsClear DEF Produce, Entering
<1>2. version[i] = 0
  BY <1>1 DEF EpochInv, OnSchedule, Stands
<1> QED BY <1>1, <1>2, Begun, ReviveKeeps

LEMMA RestoreKeeps ==
  ASSUME EpochInv, PlacementInv, UNCHANGED planVars, NEW i \in todo, Restore(i)
  PROVE  EpochInv'
<1>1. /\ Entering(i) /\ Clear(i) /\ i \in Bound /\ Going /\ Waiting(i) /\ tick \in Ticks(i)
      /\ tick # FirstUse(i) /\ Kind(i) = "spill" /\ runs > 0 /\ tick \in Nat
  BY IsClear, Begun, PlanFacts DEF Restore, Restoring
<1>2. FirstUse(i) < tick /\ tick <= Last(logical[i])
  BY <1>1, Schedule
<1>3. state[i] = "spilled"
  BY <1>1, <1>2 DEF EpochInv, OnSchedule, Stands
<1>4. materialized[i] /\ (version[i] > 0 => saved[i] \in {version[i], Torn})
  BY <1>1, <1>3 DEF EpochInv, Values, Keeps
<1>5. saved[i] # Torn /\ held' = Written({i}, saved) /\ Revive(i) /\ UNCHANGED lastTick
  BY <1>1, <1>4 DEF Restore
<1>6. held' \in [Bound -> Nat \union {Junk}]
  BY <1>1, <1>5, Begun, WriteType
<1>7. held'[i] = saved[i] /\ \A k \in Bound : k # i /\ tick \in Ticks(k) => held'[k] = held[k]
  BY <1>1, <1>5, WriteApart
<1>8. version[i] > 0 => held'[i] = version[i]
  BY <1>4, <1>5, <1>7
<1> QED BY <1>1, <1>5, <1>6, <1>7, <1>8, Begun, ReviveKeeps

LEMMA PeersEnter ==
  ASSUME EpochInv, PlacementInv, NEW i \in todo, Recomputing(i)
  PROVE  \A j \in Peers(i) : j \in Bound /\ tick \in Ticks(j)
<1>1. i \in Enters(tick) /\ i \in Bound /\ runs > 0 /\ tick \in Nat /\ Kind(i) = "recompute"
  BY IsClear, Begun, PlanFacts DEF Recomputing, Entering, EpochInv, OnSchedule, Going
<1>2. ASSUME NEW j \in Peers(i)
      PROVE  j \in Bound /\ j \in Enters(tick)
  <2>1. Segments(logical[j]) = logical[j].ranges /\ Segments(logical[i]) = logical[i].ranges
        /\ logical[j].ranges = logical[i].ranges /\ j \in Bound
    BY <1>1, <1>2 DEF Peers, Kind, Segments
  <2> QED BY <2>1, <1>1 DEF Enters
<1> QED BY <1>1, <1>2, Schedule

LEMMA RecomputeKeeps ==
  ASSUME EpochInv, PlacementInv, UNCHANGED planVars, NEW i \in todo, Recompute(i)
  PROVE  EpochInv'
<1>1. /\ Entering(i) /\ Clear(i) /\ i \in Bound /\ Going /\ Waiting(i) /\ tick \in Ticks(i)
      /\ Dispatch(i) /\ Revive(i) /\ Recomputing(i) /\ Kind(i) = "recompute" /\ runs > 0
      /\ tick \in 0 .. MaxTick
  BY IsClear, Begun DEF Recompute, Recomputing
<1>2. CASE lastTick[i] = tick
  <2>1. UNCHANGED <<held, lastTick>>
    BY <1>1, <1>2 DEF Dispatch
  <2>2. held[i] = version[i]
    BY <1>1, <1>2 DEF EpochInv, Values, Keeps
  <2> QED BY <1>1, <2>1, <2>2, Begun, ReviveKeeps
<1>3. CASE lastTick[i] # tick
  <2>1. /\ held' = Written(Peers(i), version)
        /\ lastTick' = [j \in Bound |-> IF j \in Peers(i) THEN tick ELSE lastTick[j]]
    BY <1>1, <1>3 DEF Dispatch
  <2>2. Peers(i) \in SUBSET Bound /\ i \in Peers(i) /\ \A j \in Peers(i) : tick \in Ticks(j)
    BY <1>1, PeersEnter DEF Peers
  <2>3. held' \in [Bound -> Nat \union {Junk}]
    BY <1>1, <2>1, <2>2, Begun, WriteType
  <2>4. \A k \in Bound : /\ k \in Peers(i) => held'[k] = version[k]
                         /\ k \notin Peers(i) /\ tick \in Ticks(k) => held'[k] = held[k]
    BY <1>1, <2>1, <2>2, WriteApart
  <2>5. lastTick' \in [Bound -> 0 .. MaxTick \union {-1}]
    BY <1>1, <2>1, Begun
  <2> QED BY <1>1, <2>1, <2>2, <2>3, <2>4, <2>5, ReviveKeeps
<1> QED BY <1>2, <1>3

(* A hook that fails ends the run; the next begins anew.                   *)
LEMMA FailedKeeps ==
  ASSUME EpochInv, UNCHANGED planVars, Going, stage' = "failed",
         UNCHANGED <<tick, todo, state, version, materialized, lastTick, runs>>,
         held' \in [Bound -> Nat \union {Junk}],
         saved' \in [Bound -> Nat \union {Junk, Torn}]
  PROVE  EpochInv'
<1>1. TypeOK'
  BY Begun, Fixed DEF EpochInv, TypeOK
<1>2. Planned'
  BY Begun, Fixed DEF EpochInv, Planned
<1> QED BY <1>1, <1>2 DEF EpochInv, OnSchedule, Values, Going

LEMMA HookFailsKeeps ==
  ASSUME EpochInv, PlacementInv, UNCHANGED planVars, NEW i \in todo,
         RestoreFails(i) \/ RecomputeFails(i) \/ SpillFails(i)
  PROVE  EpochInv'
<1>1. Going
  BY DEF RestoreFails, RecomputeFails, SpillFails, Restoring, Recomputing, Entering, Leaving, Going
<1>2. \A S \in SUBSET Bound : Written(S, AllJunk) \in [Bound -> Nat \union {Junk}]
  <2>1. \A k \in Bound : AllJunk[k] \in Nat \union {Junk}
    BY <1>1, Begun DEF AllJunk
  <2> QED BY <1>1, <2>1, Begun, WriteType
<1>3. CASE RestoreFails(i)
  <2>1. {i} \in SUBSET Bound
    BY <1>3, IsClear DEF RestoreFails, Restoring
  <2> QED BY <1>1, <1>2, <1>3, <2>1, Begun, FailedKeeps DEF RestoreFails, HookFails, file
<1>4. CASE RecomputeFails(i)
  <2>1. Peers(i) \in SUBSET Bound
    BY DEF Peers
  <2> QED BY <1>1, <1>2, <1>4, <2>1, Begun, FailedKeeps DEF RecomputeFails, HookFails, file
<1>5. CASE SpillFails(i)
  <2>1. saved' \in [Bound -> Nat \union {Junk, Torn}]
    BY <1>1, <1>5, Begun DEF SpillFails
  <2> QED BY <1>1, <1>5, <2>1, Begun, FailedKeeps DEF SpillFails
<1> QED BY <1>3, <1>4, <1>5

--------------------------------------------------------------------------------
(* The kernels.                                                            *)

LEMMA LaunchKeeps ==
  ASSUME EpochInv, PlacementInv, UNCHANGED planVars, Launch
  PROVE  EpochInv'
<1>1. /\ Going /\ stage = "begin" /\ todo = {} /\ stage' = "end" /\ todo' = Spills(tick)
      /\ tick' = tick /\ state' = state /\ saved' = saved /\ materialized' = materialized
      /\ lastTick' = lastTick /\ runs' = runs
  BY DEF Launch, Going, file
<1>2. PICK more \in SUBSET Updatable :
        /\ version' = [i \in Bound |-> IF i \in Born \union more THEN version[i] + 1 ELSE version[i]]
        /\ held' = Written(Born \union more, version')
  BY DEF Launch
<1> DEFINE S == Born \union more
<1>3. /\ S \in SUBSET Bound /\ \A i \in S : state[i] = "live" /\ tick \in Ticks(i)
      /\ runs > 0 /\ tick \in 0 .. MaxTick /\ tick \in Nat
  BY <1>1, Begun, PlanFacts DEF Updatable, Born, Live, EpochInv, OnSchedule, Stands
<1>4. \A i \in S : version[i] < MaxVersion /\ MaxVersion \in Nat
  <2>1. \A i \in Born : version[i] = 0
    BY <1>1 DEF Born, Live, EpochInv, OnSchedule, Stands
  <2> QED BY <2>1, EpochAssumption DEF Updatable
<1>5. version' \in [Bound -> 0 .. MaxVersion] /\ \A i \in Bound : version'[i] \in Nat
  BY <1>1, <1>2, <1>4, Begun, EpochAssumption
<1>6. held' \in [Bound -> Nat \union {Junk}]
  BY <1>1, <1>2, <1>3, <1>5, WriteType
<1>7. \A k \in Bound : /\ k \in S => held'[k] = version'[k]
                       /\ k \notin S => version'[k] = version[k]
                       /\ k \notin S /\ tick \in Ticks(k) => held'[k] = held[k]
  BY <1>2, <1>3, WriteApart
<1>8. TypeOK'
  BY <1>1, <1>5, <1>6, Begun, Fixed DEF EpochInv, TypeOK, Spills, Leaves
<1>9. Planned' /\ Going' /\ todo' \subseteq Spills(tick)'
  BY <1>1, <1>3, Fixed DEF EpochInv, Planned, Going
<1>10. ASSUME NEW k \in Bound
       PROVE  Stands(k)' /\ Keeps(k)'
  <2>1. Stands(k) /\ Keeps(k)
    BY <1>1 DEF EpochInv, OnSchedule, Values
  <2>2. ~Waiting(k)' /\ ~Waiting(k)
    BY <1>1 DEF Waiting
  <2>3. tick < FirstUse(k) => tick \notin Ticks(k)
    <3>1. tick \in Ticks(k) => FirstUse(k) <= tick
      BY <1>3, Schedule
    <3>2. FirstUse(k) \in Nat /\ tick \in Nat
      BY <1>3, Schedule
    <3> QED BY <3>1, <3>2
  <2>4. tick < FirstUse(k) => version'[k] = 0
    BY <2>1, <2>3, <1>3, <1>7 DEF Stands
  <2>5. Stands(k)'
    BY <2>1, <2>2, <2>4, <1>1, Fixed DEF Stands
  <2>6. state[k] = "live" => tick \in Ticks(k)
    BY <2>1 DEF Stands
  <2>7. state[k] = "spilled" => k \notin S
    BY <1>3
  <2>8. Keeps(k)'
    BY <2>1, <2>2, <2>6, <2>7, <1>1, <1>7 DEF Keeps
  <2> QED BY <2>5, <2>8
<1> QED BY <1>1, <1>8, <1>9, <1>10, Fixed DEF EpochInv, OnSchedule, Values

LEMMA LaunchFailsKeeps ==
  ASSUME EpochInv, UNCHANGED planVars, LaunchFails
  PROVE  EpochInv'
<1>1. Going /\ Live \in SUBSET Bound
  BY DEF LaunchFails, Going, Live
<1>2. \A k \in Bound : AllJunk[k] \in Nat \union {Junk}
  BY <1>1, Begun DEF AllJunk
<1>3. Written(Live, AllJunk) \in [Bound -> Nat \union {Junk}]
  BY <1>1, <1>2, Begun, WriteType
<1> QED BY <1>1, <1>3, Begun, FailedKeeps DEF LaunchFails, HookFails, file

--------------------------------------------------------------------------------
(* end(tick).                                                              *)

LEMMA SpillKeeps ==
  ASSUME EpochInv, PlacementInv, UNCHANGED planVars, NEW i \in todo, Spill(i)
  PROVE  EpochInv'
<1>1. /\ Going /\ stage = "end" /\ runs > 0 /\ tick \in Nat /\ i \in Bound
      /\ i \in Spills(tick) /\ todo \subseteq Spills(tick)
  BY Begun, PlanFacts DEF Spill, Leaving, Going, EpochInv, OnSchedule, Spills, Leaves
<1>2. tick \in Ticks(i) /\ ~Waiting(i)
  BY <1>1, Schedule DEF Spills, Waiting
<1>3. state[i] = "live"
  BY <1>1, <1>2 DEF EpochInv, OnSchedule, Stands
<1>4. /\ saved' = [saved EXCEPT ![i] = held[i]]
      /\ materialized' = [materialized EXCEPT ![i] = TRUE]
      /\ state' = [state EXCEPT ![i] = "spilled"]
      /\ todo' = todo \ {i}
      /\ stage' = stage /\ tick' = tick /\ version' = version /\ held' = held
      /\ lastTick' = lastTick /\ runs' = runs
  BY <1>3 DEF Spill
<1>5. TypeOK'
  BY <1>1, <1>4, Begun, Fixed DEF EpochInv, TypeOK
<1>6. Planned' /\ Going' /\ todo' \subseteq Spills(tick)'
  BY <1>1, <1>4, Fixed DEF EpochInv, Planned, Going
<1>7. ASSUME NEW k \in Bound
      PROVE  Stands(k)' /\ Keeps(k)'
  <2>1. Stands(k) /\ Keeps(k)
    BY <1>1 DEF EpochInv, OnSchedule, Values
  <2>2. ~Waiting(k) /\ ~Waiting(k)'
    BY <1>1, <1>4 DEF Waiting
  <2>3. /\ k # i => state'[k] = state[k] /\ saved'[k] = saved[k]
                    /\ materialized'[k] = materialized[k]
        /\ state'[i] = "spilled" /\ saved'[i] = held[i] /\ materialized'[i] = TRUE
    BY <1>1, <1>4, Begun
  <2>4. Stands(k)'
    BY <2>1, <2>2, <2>3, <1>1, <1>4, Fixed DEF Stands
  <2>5. Keeps(k)'
    BY <2>1, <2>2, <2>3, <1>3, <1>4 DEF Keeps
  <2> QED BY <2>4, <2>5
<1> QED BY <1>1, <1>4, <1>5, <1>6, <1>7, Fixed DEF EpochInv, OnSchedule, Values

(* Between two ticks a buffer changes its place as its ranges say.         *)
LEMMA Crossing ==
  ASSUME EpochInv, PlacementInv, stage = "end", todo = {}, tick # MaxTick,
         NEW k \in Bound
  PROVE  LET released == k \in Leaves(tick) /\ state[k] = "live"
             next == tick + 1
             waits == k \in Enters(next)
         IN  /\ state[k] = "live" /\ ~released => next \in Ticks(k) /\ ~waits
             /\ next \in Ticks(k) /\ ~waits => state[k] = "live" /\ ~released
             /\ /\ Kind(k) = "spill" /\ FirstUse(k) < next /\ next <= Last(logical[k])
                /\ next \notin Ticks(k) \/ waits
                => state[k] = "spilled"
             /\ next <= FirstUse(k) => version[k] = 0
<1>1. Going /\ runs > 0 /\ tick \in Nat /\ tick + 1 \in Nat
  BY Begun, PlanFacts DEF Going
<1>2. Stands(k) /\ ~Waiting(k)
  BY <1>1 DEF EpochInv, OnSchedule, Waiting
<1>3. /\ k \in Leaves(tick) => tick \in Ticks(k)
      /\ tick \in Ticks(k) => FirstUse(k) <= tick /\ tick <= Last(logical[k])
      /\ FirstUse(k) \in Nat /\ Last(logical[k]) \in Nat
      /\ tick \in Ticks(k) /\ k \notin Leaves(tick) => tick + 1 \in Ticks(k)
      /\ tick + 1 \in Ticks(k) /\ k \notin Enters(tick + 1) =>
           tick \in Ticks(k) /\ k \notin Leaves(tick)
      /\ tick \in Ticks(k) /\ (tick + 1 \notin Ticks(k) \/ k \in Enters(tick + 1)) =>
           k \in Leaves(tick)
      /\ FirstUse(k) \in Ticks(k)
  BY <1>1, Schedule, PlacementAssumption
<1>4. tick \in Ticks(k) => state[k] = IF k \in Spills(tick) THEN "spilled" ELSE "live"
  BY <1>2 DEF Stands
<1>5. state[k] = "live" => tick \in Ticks(k)
  BY <1>2 DEF Stands
<1>6. k \in Spills(tick) <=> k \in Leaves(tick) /\ Kind(k) = "spill" /\ tick # Last(logical[k])
  BY DEF Spills
<1>7. ASSUME Kind(k) = "spill", FirstUse(k) < tick + 1, tick + 1 <= Last(logical[k]),
             tick + 1 \notin Ticks(k) \/ k \in Enters(tick + 1)
      PROVE  state[k] = "spilled"
  <2>1. CASE tick \in Ticks(k)
    BY <2>1, <1>1, <1>3, <1>4, <1>6, <1>7
  <2>2. CASE tick \notin Ticks(k)
    <3>1. FirstUse(k) < tick /\ tick <= Last(logical[k])
      BY <2>2, <1>1, <1>3, <1>7
    <3> QED BY <3>1, <2>2, <1>2, <1>7 DEF Stands
  <2> QED BY <2>1, <2>2
<1>8. tick + 1 <= FirstUse(k) => version[k] = 0
  BY <1>1, <1>2, <1>3 DEF Stands
<1>9. state[k] = "live" /\ k \notin Leaves(tick) =>
        tick + 1 \in Ticks(k) /\ k \notin Enters(tick + 1)
  BY <1>1, <1>3, <1>5
<1> QED BY <1>3, <1>4, <1>6, <1>7, <1>8, <1>9

LEMMA ReleaseKeeps ==
  ASSUME EpochInv, PlacementInv, UNCHANGED planVars, Release
  PROVE  EpochInv'
<1>1. /\ Going /\ stage = "end" /\ todo = {} /\ runs > 0 /\ tick \in Nat
      /\ tick \in 0 .. MaxTick /\ MaxTick \in Nat
  BY Begun, PlanFacts DEF Release, Going
<1>2. ASSUME NEW i \in Leaves(tick)
      PROVE  state[i] # "absent"
  <2>1. i \in Bound /\ tick \in Ticks(i)
    BY <1>1, Schedule DEF Leaves
  <2> QED BY <1>1, <2>1 DEF EpochInv, OnSchedule, Stands, Waiting
<1>3. /\ state' = [i \in Bound |-> IF i \in Leaves(tick) /\ state[i] = "live"
                                     THEN "absent" ELSE state[i]]
      /\ NextTick /\ version' = version /\ held' = held /\ saved' = saved
      /\ materialized' = materialized /\ lastTick' = lastTick /\ runs' = runs
  BY <1>2 DEF Release, file
<1>4. state' \in [Bound -> {"absent", "live", "spilled"}]
  BY <1>1, <1>3, Begun
<1>5. CASE tick = MaxTick
  <2>1. stage' = "off" /\ tick' = 0 /\ todo' = {}
    BY <1>3, <1>5 DEF NextTick
  <2>2. TypeOK'
    BY <1>1, <1>3, <1>4, <2>1, Begun, Fixed DEF EpochInv, TypeOK
  <2> QED BY <1>1, <1>3, <2>1, <2>2, Fixed DEF EpochInv, Planned, OnSchedule, Values, Going
<1>6. CASE tick # MaxTick
  <2>1. stage' = "begin" /\ tick' = tick + 1 /\ todo' = Enters(tick + 1)
    BY <1>3, <1>6 DEF NextTick
  <2>2. TypeOK'
    BY <1>1, <1>3, <1>4, <1>6, <2>1, Begun, Fixed DEF EpochInv, TypeOK, Enters
  <2>3. Planned' /\ Going' /\ todo' \subseteq Enters(tick)'
    BY <1>1, <1>3, <2>1, Fixed DEF EpochInv, Planned, Going
  <2>4. ASSUME NEW k \in Bound
        PROVE  Stands(k)' /\ Keeps(k)'
    <3> DEFINE released == k \in Leaves(tick) /\ state[k] = "live"
               waits == k \in Enters(tick + 1)
    <3>1. Stands(k) /\ Keeps(k)
      BY <1>1 DEF EpochInv, OnSchedule, Values
    <3>2. /\ state[k] = "live" /\ ~released => tick + 1 \in Ticks(k) /\ ~waits
          /\ tick + 1 \in Ticks(k) /\ ~waits => state[k] = "live" /\ ~released
          /\ /\ Kind(k) = "spill" /\ FirstUse(k) < tick + 1 /\ tick + 1 <= Last(logical[k])
             /\ tick + 1 \notin Ticks(k) \/ waits
             => state[k] = "spilled"
          /\ tick + 1 <= FirstUse(k) => version[k] = 0
      BY <1>1, <1>6, Crossing
    <3>3. Waiting(k)' <=> waits
      BY <2>1 DEF Waiting
    <3>4. state'[k] = IF released THEN "absent" ELSE state[k]
      BY <1>3
    <3>5. FirstUse(k) \in Nat
      BY <1>1, Schedule
    <3> HIDE DEF released, waits
    <3>6. Stands(k)'
      BY <1>1, <1>3, <2>1, <3>2, <3>3, <3>4, <3>5, Fixed DEF Stands
    <3>7. lastTick[k] <= tick /\ lastTick[k] < tick + 1
      BY <1>1, <3>1, Begun DEF Keeps
    <3>8. Keeps(k)'
      BY <1>1, <1>3, <2>1, <3>1, <3>4, <3>7, Begun DEF Keeps
    <3> QED BY <3>6, <3>8
  <2> QED BY <1>1, <2>1, <2>2, <2>3, <2>4, Fixed DEF EpochInv, OnSchedule, Values
<1> QED BY <1>5, <1>6

--------------------------------------------------------------------------------
(* The first tick, a change outside, and planning.                         *)

LEMMA StartRunKeeps ==
  ASSUME EpochInv, PlacementInv, UNCHANGED planVars, StartRun
  PROVE  EpochInv'
<1>1. /\ planner = "metal" /\ result = "planned" /\ runs < MaxRuns /\ runs' = runs + 1
      /\ stage' = "begin" /\ tick' = 0 /\ todo' = Enters(0)
      /\ state' = [i \in Bound |-> "absent"] /\ version' = [i \in Bound |-> 0]
      /\ held' = [i \in Bound |-> Junk]
      /\ saved' = [i \in Bound |-> IF runs > 0 /\ saved[i] = Torn THEN Torn ELSE Junk]
      /\ materialized' = IF runs = 0 THEN [i \in Bound |-> FALSE] ELSE materialized
      /\ lastTick' = [i \in Bound |-> -1]
  BY DEF StartRun, RecipesReset
<1>2. runs \in 0 .. MaxRuns /\ MaxRuns \in Nat /\ MaxTick \in Nat /\ MaxVersion \in Nat
      /\ (runs > 0 => materialized \in [Bound -> BOOLEAN])
  BY EpochAssumption, PlacementAssumption DEF EpochInv, TypeOK
<1>3. /\ runs' \in 1 .. MaxRuns /\ 0 \in 0 .. MaxTick /\ 0 \in 0 .. MaxVersion
      /\ materialized' \in [Bound -> BOOLEAN]
      /\ lastTick' \in [Bound -> 0 .. MaxTick \union {-1}]
      /\ saved' \in [Bound -> Nat \union {Junk, Torn}]
      /\ held' \in [Bound -> Nat \union {Junk}]
      /\ version' \in [Bound -> 0 .. MaxVersion]
      /\ state' \in [Bound -> {"absent", "live", "spilled"}]
  BY <1>1, <1>2
<1>4. TypeOK'
  BY <1>1, <1>3, Fixed DEF EpochInv, TypeOK, Enters
<1>5. Planned' /\ Going' /\ todo' \subseteq Enters(tick)'
  BY <1>1, <1>3, Fixed DEF Planned, Going
<1>6. ASSUME NEW k \in Bound
      PROVE  Stands(k)' /\ Keeps(k)'
  <2>1. logical[k] \in LogicalBuffer /\ WellFormed(logical[k])
    <3>1. k \in DOMAIN logical
      BY <1>6 DEF EpochInv, TypeOK, PlanTypeOK, Bound
    <3> QED BY <1>1, <3>1 DEF PlacementInv, PlanTypeOK, Admitted, Admissible
  <2>2. FirstUse(k) \in Nat
    BY <2>1, SegmentFacts DEF FirstUse
  <2>3. 0 \in Ticks(k) => k \in Enters(0)
    <3>1. 0 \in Occupied(logical[k]) => \E r \in Segments(logical[k]) : r.first = 0
      BY <2>1, TickFacts
    <3> QED BY <3>1 DEF Ticks, Enters
  <2>4. Waiting(k)' <=> k \in Enters(0)
    BY <1>1 DEF Waiting
  <2>5. state'[k] = "absent" /\ version'[k] = 0 /\ lastTick'[k] = -1
    BY <1>1
  <2>6. Stands(k)'
    BY <1>1, <2>2, <2>3, <2>4, <2>5, Fixed DEF Stands
  <2>7. Keeps(k)'
    BY <1>1, <2>5 DEF Keeps
  <2> QED BY <2>6, <2>7
<1> QED BY <1>1, <1>4, <1>5, <1>6, Fixed DEF EpochInv, OnSchedule, Values

LEMMA CorruptFileKeeps ==
  ASSUME EpochInv, UNCHANGED planVars, NEW i \in DOMAIN saved, CorruptFile(i)
  PROVE  EpochInv'
<1>1. /\ Going /\ stage' = stage /\ tick' = tick /\ todo' = todo /\ state' = state
      /\ version' = version /\ held' = held /\ materialized' = materialized
      /\ lastTick' = lastTick /\ runs' = runs
      /\ saved' = [saved EXCEPT ![i] = Torn]
  BY DEF CorruptFile, Going, runner
<1>2. saved' \in [Bound -> Nat \union {Junk, Torn}]
  BY <1>1, Begun
<1>3. TypeOK' /\ Planned'
  BY <1>1, <1>2, Begun, Fixed DEF EpochInv, TypeOK, Planned
<1>4. Going' /\ todo' \subseteq IF stage' = "begin" THEN Enters(tick)' ELSE Spills(tick)'
  BY <1>1, Fixed DEF EpochInv, OnSchedule, Going
<1>5. ASSUME NEW k \in Bound
      PROVE  Stands(k)' /\ Keeps(k)'
  <2>1. Stands(k) /\ Keeps(k)
    BY <1>1 DEF EpochInv, OnSchedule, Values
  <2>2. Waiting(k)' <=> Waiting(k)
    BY <1>1 DEF Waiting
  <2>3. saved'[k] = IF k = i THEN Torn ELSE saved[k]
    BY <1>1, Begun
  <2>4. Stands(k)'
    BY <1>1, <2>1, <2>2, Fixed DEF Stands
  <2>5. Keeps(k)'
    BY <1>1, <2>1, <2>2, <2>3 DEF Keeps
  <2> QED BY <2>4, <2>5
<1> QED BY <1>1, <1>3, <1>4, <1>5, Fixed DEF EpochInv, OnSchedule, Values

LEMMA PlanningKeeps ==
  ASSUME EpochInv, PlacementInv', Planning
  PROVE  EpochInv'
<1>1. /\ runs = 0 /\ runs' = 0 /\ stage' = stage /\ tick' = tick /\ todo' = todo
      /\ saved' = saved
  BY DEF Planning, epochVars, runner, file
<1>2. stage = "off" /\ todo = {} /\ saved = <<>>
  BY <1>1 DEF EpochInv, Planned
<1>3. PlanTypeOK'
  BY DEF PlacementInv
<1>4. TypeOK'
  BY <1>1, <1>2, <1>3 DEF EpochInv, TypeOK
<1>5. Planned'
  BY <1>1, <1>2 DEF Planned
<1> QED BY <1>1, <1>2, <1>4, <1>5 DEF EpochInv, OnSchedule, Values, Going

LEMMA EpochStuttering ==
  ASSUME EpochInv, UNCHANGED vars
  PROVE  EpochInv'
<1>1. UNCHANGED planVars /\ UNCHANGED epochVars
  BY DEF vars
<1>2. /\ stage' = stage /\ tick' = tick /\ todo' = todo /\ state' = state
      /\ version' = version /\ held' = held /\ materialized' = materialized
      /\ lastTick' = lastTick /\ runs' = runs /\ saved' = saved
  BY <1>1 DEF epochVars, runner, file
<1>3. TypeOK' /\ Planned'
  BY <1>1, <1>2, Fixed DEF EpochInv, TypeOK, Planned
<1>4. Going' <=> Going
  BY <1>2 DEF Going
<1>5. Going => todo' \subseteq IF stage' = "begin" THEN Enters(tick)' ELSE Spills(tick)'
  BY <1>1, <1>2, Fixed DEF EpochInv, OnSchedule
<1>6. ASSUME NEW k \in Bound, Going
      PROVE  Stands(k)' /\ Keeps(k)'
  <2>1. Stands(k) /\ Keeps(k)
    BY <1>6 DEF EpochInv, OnSchedule, Values
  <2>2. Waiting(k)' <=> Waiting(k)
    BY <1>2 DEF Waiting
  <2>3. Stands(k)'
    BY <1>1, <1>2, <2>1, <2>2, Fixed DEF Stands
  <2>4. Keeps(k)'
    BY <1>2, <2>1, <2>2 DEF Keeps
  <2> QED BY <2>3, <2>4
<1> QED BY <1>1, <1>2, <1>3, <1>4, <1>5, <1>6, Fixed DEF EpochInv, OnSchedule, Values

--------------------------------------------------------------------------------
(* Theorems.                                                               *)

(* To the planner a run is a step that changes nothing: what a run and the *)
(* file do leaves the plan as build returned it.                           *)
THEOREM EpochsKeepThePlan ==
  Spec => PlanSpec
<1>1. Init => PlanInit
  BY DEF Init
<1>2. [Next]_vars => [PlanNext]_planVars
  BY DEF Next, Planning, Running, Outside, vars
<1> QED BY <1>1, <1>2, PTL DEF Spec, PlanSpec

(* Two buffers that are needed at one tick never overlap, whether their    *)
(* plan was returned, is being made or runs (arena_plan.zig build and      *)
(* validate, arena.zig findOffset).                                        *)
THEOREM NothingAliases ==
  Spec => []NoAliasing
BY EpochsKeepThePlan, PlacementNeverAliases, PTL

(* Every placement, also of a projected plan, is at the lowest offset that *)
(* is free, and running the plan moves nothing.                            *)
THEOREM EpochsRefineLowestFit ==
  Spec => ImplementsLowestFit
BY EpochsKeepThePlan, PlacementIsLowestFit

(* While a run goes on a buffer is live exactly during its ranges and      *)
(* between them spilled if that is how it is kept, and memory and file     *)
(* hold its last version.                                                  *)
THEOREM EpochInvariant ==
  Spec => []EpochInv
<1>1. Init => EpochInv
  <2> SUFFICES ASSUME Init PROVE EpochInv
    OBVIOUS
  <2>1. PlanTypeOK
    BY InitPlacement DEF Init, PlacementInv
  <2>2. MaxTick \in Nat /\ MaxRuns \in Nat
    BY PlacementAssumption, EpochAssumption
  <2> QED BY <2>1, <2>2 DEF Init, EpochInv, TypeOK, Planned, OnSchedule, Values, Going
<1>2. EpochInv /\ PlacementInv /\ PlacementInv' /\ [Next]_vars => EpochInv'
  <2> SUFFICES ASSUME EpochInv, PlacementInv, PlacementInv', [Next]_vars PROVE EpochInv'
    OBVIOUS
  <2>1. CASE Planning
    BY <2>1, PlanningKeeps
  <2>2. CASE StartRun /\ UNCHANGED planVars
    BY <2>2, StartRunKeeps
  <2>3. CASE RunStep /\ UNCHANGED planVars
    <3>1. ASSUME NEW i \in todo, Produce(i) PROVE EpochInv'
      BY <2>3, <3>1, ProduceKeeps
    <3>2. ASSUME NEW i \in todo, Restore(i) PROVE EpochInv'
      BY <2>3, <3>2, RestoreKeeps
    <3>3. ASSUME NEW i \in todo, Recompute(i) PROVE EpochInv'
      BY <2>3, <3>3, RecomputeKeeps
    <3>4. ASSUME NEW i \in todo, RestoreFails(i) \/ RecomputeFails(i) \/ SpillFails(i)
          PROVE  EpochInv'
      BY <2>3, <3>4, HookFailsKeeps
    <3>5. ASSUME NEW i \in todo, Spill(i) PROVE EpochInv'
      BY <2>3, <3>5, SpillKeeps
    <3>6. CASE Launch
      BY <2>3, <3>6, LaunchKeeps
    <3>7. CASE LaunchFails
      BY <2>3, <3>7, LaunchFailsKeeps
    <3>8. CASE Release
      BY <2>3, <3>8, ReleaseKeeps
    <3> QED BY <2>3, <3>1, <3>2, <3>3, <3>4, <3>5, <3>6, <3>7, <3>8 DEF RunStep
  <2>4. CASE Outside
    BY <2>4, CorruptFileKeeps DEF Outside
  <2>5. CASE UNCHANGED vars
    BY <2>5, EpochStuttering
  <2> QED BY <2>1, <2>2, <2>3, <2>4, <2>5 DEF Next, Running
<1> QED BY <1>1, <1>2, EpochsKeepThePlan, PlacementInvariant, PTL DEF Spec

(* Every value is of its type.                                             *)
THEOREM EpochTypeCorrect ==
  Spec => []TypeOK
<1>1. EpochInv => TypeOK
  BY DEF EpochInv
<1> QED BY <1>1, EpochInvariant, PTL

(* The runner never answers AliasOverlap, InvalidUseOrder or               *)
(* SpillNotMaterialized to a schedule of a plan that build returned.       *)
THEOREM RunnerNeverRefuses ==
  Spec => []NeverRefused
<1>1. EpochInv => NeverRefused
  BY DEF EpochInv, NeverRefused
<1> QED BY <1>1, EpochInvariant, PTL

(* A live buffer holds the last version of its value, after any number of  *)
(* spills, restores and recomputations in this run and those before it.    *)
THEOREM LiveBuffersHoldTheirValues ==
  Spec => []LiveHoldsValue
<1>1. EpochInv => LiveHoldsValue
  BY DEF EpochInv, Values, Keeps, Going, LiveHoldsValue, Live
<1> QED BY <1>1, EpochInvariant, PTL

--------------------------------------------------------------------------------
(* Why a run ends: what LoopsEnd says of it, but for fairness.             *)

Runner == <<stage, tick, todo>>

(* The measure that goes down: the ticks to come, then the half of the     *)
(* tick, then the buffers of that half.                                    *)
Onward ==
  \/ stage' \in {"off", "failed"}
  \/ stage = "end" /\ stage' = "begin" /\ tick' = tick + 1 /\ tick' <= MaxTick
  \/ stage = "begin" /\ stage' = "end" /\ tick' = tick
  \/ stage' = stage /\ tick' = tick /\ Smaller(todo', todo)

RunAdvances == [][Going /\ Runner' # Runner => Onward]_vars

(* Each step of a run, hooks that fail included, brings its end nearer,    *)
(* and nothing else moves it: it does the buffers of a begin, then those   *)
(* of the end, and goes to the next tick, the last of which is the plan's  *)
(* (arena_plan.zig 582-620).                                               *)
THEOREM RunningAdvances == Spec => RunAdvances
<1>1. ASSUME EpochInv, EpochInv', [Next]_vars, Going, Runner' # Runner
      PROVE  Onward
  <2>1. stage' # "refused" /\ tick \in 0 .. MaxTick /\ MaxTick \in Nat
    BY <1>1, PlacementAssumption DEF EpochInv, TypeOK
  <2>2. RunStep
    BY <1>1 DEF Next, Planning, Running, Outside, StartRun, CorruptFile, Runner, vars,
                epochVars, runner, Going
  <2>3. ASSUME NEW i \in todo, Revive(i)
        PROVE  tick' = tick /\ stage' = stage /\ Smaller(todo', todo)
    BY <2>3 DEF Revive, Smaller
  <2>4. ASSUME NEW i \in todo,
               Produce(i) \/ Restore(i) \/ Recompute(i)
        PROVE  tick' = tick /\ stage' = stage /\ Smaller(todo', todo)
    BY <2>1, <2>3, <2>4 DEF Produce, Restore, Recompute, Refuse
  <2>5. ASSUME NEW i \in todo, Spill(i)
        PROVE  tick' = tick /\ stage' = stage /\ Smaller(todo', todo)
    BY <2>1, <2>5 DEF Spill, Refuse, Smaller
  <2>6. ASSUME NEW i \in todo, RestoreFails(i) \/ RecomputeFails(i) \/ SpillFails(i)
        PROVE  stage' = "failed"
    BY <2>6 DEF RestoreFails, RecomputeFails, SpillFails, HookFails
  <2>7. CASE Launch \/ LaunchFails
    BY <1>1, <2>7 DEF Launch, LaunchFails, HookFails, Onward, Going
  <2>8. CASE Release
    BY <2>1, <2>8 DEF Release, NextTick, Refuse, Onward
  <2> QED BY <2>2, <2>4, <2>5, <2>6, <2>7, <2>8 DEF RunStep, Onward
<1> QED BY <1>1, EpochInvariant, PTL DEF Spec, RunAdvances

================================================================================
